---- MODULE Spec2Model ----
(***************************************************************************)
(* A model of the virtual filesystem layer of cozy-stack, pkg/vfs/file.go: *)
(* the staged writer (CreateFile / Write / Close), the metadata mutator    *)
(* (ModifyFileMetadata), the trash (TrashFile / RestoreFile), the reader   *)
(* (Open / Read) and the safe primitives (safeCreateFile, safeRenameFile), *)
(* run by independent request threads over a shared content store          *)
(* (afero.Fs) and a shared metadata store (couchdb).                       *)
(*                                                                         *)
(* Every call on the content store or on the metadata store is one atomic  *)
(* step; the code between two such calls is local to the thread and is     *)
(* folded into the step that follows it.  The layer holds no lock, so the  *)
(* steps of different threads interleave freely.                           *)
(***************************************************************************)
EXTENDS Integers, Sequences, FiniteSets, TLC

(* ----------------------------- bounds --------------------------------- *)

\* Operations (CreateFile..Close cycles, and calls of ModifyFileMetadata, TrashFile,
\* RestoreFile and Open) started in a run.
MaxOps == 2
\* Write calls on one handle.
MaxWrites == 2

\* The request threads.
Procs == {"p1", "p2"}
\* The file names callers use.
Names == {"a", "b"}
\* The buffers handed to Write.
Chunks == {<<1, 1>>}

(* --------------------------- constants -------------------------------- *)

RootDirID == "io.cozy.files.root-dir"
TrashDirID == "io.cozy.files.trash-dir"
TrashDirName == "/.cozy_trash"

\* Error values.
Nil == "nil"
ErrInvalidHash == "vfs.ErrInvalidHash"
ErrNonAbsolutePath == "vfs: path should be absolute"
ErrContentLengthMismatch == "vfs.ErrContentLengthMismatch"
ErrConflict == "vfs.ErrConflict"
ErrExist == "os.ErrExist"
ErrNotExist == "os.ErrNotExist"
ErrInvalid == "os.ErrInvalid"
ErrWrite == "afero: write error"
ErrClose == "afero: close error"
ErrCouchConflict == "couchdb: conflict"
ErrCouchFailure == "couchdb: request failed"

\* A nil []byte digest, and the size a caller gives when it declares none.
NoDigest == -1
NoSize == -1

VARIABLES
    fs,     \* content store: path -> [fid, data, mode]
    db,     \* metadata store: id -> file document (current revision)
    hist,   \* every document revision the store ever held (what a caller may still hold)
    th,     \* per thread: position, and the File / fileCreation it works on
    nops    \* operations started so far

vars == <<fs, db, hist, th, nops>>

(* ------------------------- pure functions ----------------------------- *)

\* crypto/md5 over the bytes fed to the hash, as a small polynomial checksum.
RECURSIVE MD5Digest(_)
MD5Digest(s) ==
    IF s = <<>> THEN 7
    ELSE (MD5Digest(SubSeq(s, 1, Len(s) - 1)) * 31 + s[Len(s)]) % 251

getFileMode(executable) == IF executable THEN "0755" ELSE "0644"

PathJoin(parentPath, name) ==
    IF parentPath = "/" THEN "/" \o name ELSE parentPath \o "/" \o name

\* The path of the parent directory where the tree holds the root and the trash
\* directory only, so that no lookup fails.
ParentPath(dirID) == IF dirID = TrashDirID THEN TrashDirName ELSE "/"

FileDocPath(doc) ==
    IF doc.dirID = RootDirID THEN PathJoin("/", doc.name)
    ELSE PathJoin(ParentPath(doc.dirID), doc.name)

FileType == "file"
DirType == "directory"

NoDoc ==
    [type |-> "", id |-> "", rev |-> 0, name |-> "", dirID |-> "", restorePath |-> "",
     createdAt |-> 0, size |-> NoSize, md5 |-> NoDigest, mime |-> "", class |-> "",
     exec |-> FALSE, tags |-> <<>>, referencedBy |-> <<>>]

\* uniqueTags: the tags without their repetitions, in the order of first occurrence.
RECURSIVE uniqueTags(_)
uniqueTags(tags) ==
    IF tags = <<>> THEN <<>>
    ELSE LET front == uniqueTags(SubSeq(tags, 1, Len(tags) - 1))
             last == tags[Len(tags)]
         IN IF \E i \in 1..Len(front) : front[i] = last THEN front
            ELSE Append(front, last)

NewFileDoc(name, dirID, size, md5Sum, mime, class, cdate, executable, tags) ==
    [type |-> FileType, id |-> "", rev |-> 0, name |-> name,
     dirID |-> IF dirID = "" THEN RootDirID ELSE dirID,
     restorePath |-> "",
     createdAt |-> cdate,
     size |-> size, md5 |-> md5Sum, mime |-> mime, class |-> class,
     exec |-> executable, tags |-> uniqueTags(tags), referencedBy |-> <<>>]

\* No directory document: a nil *DirDoc.
NoDir == [type |-> "", id |-> "", rev |-> 0, name |-> "", dirID |-> ""]

\* The document of a directory.
DirDoc(id, name, dirID) ==
    [type |-> DirType, id |-> id, rev |-> 1, name |-> name, dirID |-> dirID]

\* The document of the root directory, which every store has.
RootDir == DirDoc(RootDirID, "", "")

\* GetDirDoc: the directory document with that id in the store d.
GetDirDoc(d, dirID) ==
    IF dirID = RootDirID THEN [err |-> Nil, dir |-> RootDir]
    ELSE IF dirID \in DOMAIN d /\ d[dirID].type = DirType
    THEN [err |-> Nil, dir |-> d[dirID]]
    ELSE [err |-> ErrNotExist, dir |-> NoDir]

\* getParentDir(c, parent, dirID): the cached parent when there is one, the directory
\* of the store otherwise.
getParentDir(d, parent, dirID) ==
    IF parent # NoDir THEN [err |-> Nil, dir |-> parent]
    ELSE GetDirDoc(d, dirID)

\* DirDoc.Path: the path of a directory, through its parents up to the root.
RECURSIVE DirPath(_, _)
DirPath(d, dir) ==
    IF dir.dirID = RootDirID THEN [err |-> Nil, path |-> PathJoin("/", dir.name)]
    ELSE LET up == GetDirDoc(d, dir.dirID)
         IN IF up.err # Nil THEN [err |-> up.err, path |-> ""]
            ELSE LET parentPath == DirPath(d, up.dir)
                 IN IF parentPath.err # Nil THEN parentPath
                    ELSE [err |-> Nil, path |-> PathJoin(parentPath.path, dir.name)]

\* Mutant of Path: a parent that is not found counts as the root.
PathUnderRootOnError(d, doc, parent) ==
    IF doc.dirID = RootDirID THEN [err |-> Nil, path |-> PathJoin("/", doc.name)]
    ELSE LET up == getParentDir(d, parent, doc.dirID)
         IN IF up.err # Nil THEN [err |-> Nil, path |-> PathJoin("/", doc.name)]
            ELSE LET parentPath == DirPath(d, up.dir)
                 IN IF parentPath.err # Nil THEN parentPath
                    ELSE [err |-> Nil, path |-> PathJoin(parentPath.path, doc.name)]

\* FileDoc.Path in a tree of directories: doc.parent is the cached parent.
Path(d, doc, parent) ==
    IF doc.dirID = RootDirID THEN [err |-> Nil, path |-> PathJoin("/", doc.name)]
    ELSE LET up == getParentDir(d, parent, doc.dirID)
         IN IF up.err # Nil THEN [err |-> up.err, path |-> ""]
            ELSE LET parentPath == DirPath(d, up.dir)
                 IN IF parentPath.err # Nil THEN parentPath
                    ELSE [err |-> Nil, path |-> PathJoin(parentPath.path, doc.name)]

BakPath(olddoc) == "/." \o olddoc.id \o "_" \o ToString(olddoc.rev)

\* strings.HasPrefix
HasPrefix(s, prefix) == Len(s) >= Len(prefix) /\ SubSeq(s, 1, Len(prefix)) = prefix

\* strings.LastIndex, as the position of the first character, 0 when sub is not in s.
RECURSIVE LastIndex(_, _, _)
LastIndex(s, sub, i) ==
    IF i < 1 THEN 0
    ELSE IF SubSeq(s, i, i + Len(sub) - 1) = sub THEN i
    ELSE LastIndex(s, sub, i - 1)

\* path.Dir of a clean absolute path.
PathDir(path) ==
    LET i == LastIndex(path, "/", Len(path))
    IN IF i <= 1 THEN "/" ELSE SubSeq(path, 1, i - 1)

\* The suffix formats of the conflict namer: fmt.Sprintf(format, name, n).
conflictSuffix == " (__cozy__: "
conflictFormat(name, n) == name \o conflictSuffix \o ToString(n) \o ")"
restoreFormat(name, n) == name \o " (" \o ToString(n) \o ")"

\* stripSuffix(name, conflictSuffix): the name without the suffix the trash gave it.
stripSuffix(name, suffix) ==
    LET loc == LastIndex(name, suffix, Len(name) - Len(suffix) + 1)
    IN IF loc = 0 THEN name ELSE SubSeq(name, 1, loc - 1)

(* --------------------------- content store ---------------------------- *)

FsExists(f, path) == path \in DOMAIN f

\* afero.Fs.Rename with the semantics of os.Rename: an existing newname is replaced.
FsRename(f, oldname, newname) ==
    [q \in (DOMAIN f \ {oldname}) \cup {newname} |->
        IF q = newname THEN f[oldname] ELSE f[q]]

FsRemove(f, path) == [q \in DOMAIN f \ {path} |-> f[q]]

\* OpenFile(name, O_WRONLY|O_CREATE|O_EXCL, mode) on a free name.
FsCreate(f, path, fid, mode) ==
    [q \in DOMAIN f \cup {path} |->
        IF q = path THEN [fid |-> fid, data |-> <<>>, mode |-> mode] ELSE f[q]]

\* Mutant of FsAppend: every write starts again at the beginning of the file.
FsAppendAtStart(f, fid, bytes) ==
    [q \in DOMAIN f |->
        IF f[q].fid = fid THEN [f[q] EXCEPT !.data = bytes] ELSE f[q]]

\* A write through an open handle reaches the file whatever its current name.
FsAppend(f, fid, bytes) ==
    [q \in DOMAIN f |->
        IF f[q].fid = fid THEN [f[q] EXCEPT !.data = @ \o bytes] ELSE f[q]]

\* The handle fid is closed: the file, wherever it is, has no writer any more.
FsRelease(f, fid) ==
    [q \in DOMAIN f |-> IF f[q].fid = fid THEN [f[q] EXCEPT !.fid = ""] ELSE f[q]]

FsChmod(f, path, mode) == [f EXCEPT ![path].mode = mode]

(* --------------------------- metadata store --------------------------- *)

FreshID == "f" \o ToString(Cardinality({h.id : h \in hist}) + 1)

\* couchdb.UpdateDoc: succeeds only with the store's current revision.
UpdateOK(doc) == doc.id \in DOMAIN db /\ db[doc.id].rev = doc.rev

Updated(doc) == [doc EXCEPT !.rev = doc.rev + 1]

Created(doc) == [doc EXCEPT !.id = FreshID, !.rev = 1]

DbPut(d, doc) == [i \in DOMAIN d \cup {doc.id} |-> IF i = doc.id THEN doc ELSE d[i]]

\* couchdb.DeleteDoc: the document leaves the store.
DbDelete(d, doc) == [i \in DOMAIN d \ {doc.id} |-> d[i]]

(* ------------------------------ state --------------------------------- *)

\* The clock of the model: the files of the initial state were created at Earlier,
\* every call of this run reads Now.
Earlier == 1
Now == 2

InitDoc ==
    [type |-> FileType, id |-> "f1", rev |-> 1, name |-> "a", dirID |-> RootDirID,
     restorePath |-> "",
     createdAt |-> Earlier, size |-> 1, md5 |-> MD5Digest(<<2>>),
     mime |-> "text/plain", class |-> "text",
     exec |-> FALSE, tags |-> <<>>, referencedBy |-> <<>>]

\* A request of the data API: the parameters of the URL, the If-Match header, the
\* query parameters rev and revs, whether the body and the query can be read, and the
\* _id and the _rev of the body. "" is a parameter that is not given.
NoReq ==
    [doctype |-> "", docid |-> "", revHeader |-> "", revQuery |-> "", revs |-> "",
     bind |-> TRUE, id |-> "", rev |-> ""]

IdleTh ==
    [pc |-> "idle", op |-> "", ret |-> Nil,
     newdoc |-> NoDoc, olddoc |-> NoDoc, newpath |-> "", bakpath |-> "", oldpath |-> "",
     fid |-> "", w |-> 0, hash |-> <<>>, checkHash |-> FALSE, err |-> Nil,
     cerr |-> Nil, nwrites |-> 0, nconflict |-> 0, rbuf |-> <<>>, mis |-> "",
     again |-> FALSE, parent |-> NoDir, oldparent |-> NoDir, nlookup |-> 0, arg |-> "",
     req |-> NoReq, calls |-> <<>>,
     patch |-> [name |-> {}, dirID |-> {}, restorePath |-> {}, exec |-> {}, tags |-> {}]]

\* One file "/a" created earlier: its content and its document agree.
Init ==
    /\ fs = [q \in {"/a"} |-> [fid |-> "", data |-> <<2>>, mode |-> "0644"]]
    /\ db = [i \in {"f1"} |-> InitDoc]
    /\ hist = {InitDoc}
    /\ th = [p \in Procs |-> IdleTh]
    /\ nops = 0

Free(p) == th[p].pc \in {"idle", "closed"}

Set(p, r) == th' = [th EXCEPT ![p] = r]

\* The thread after a call that returned err and no handle.
Returned(p, err) ==
    [IdleTh EXCEPT !.op = th[p].op, !.ret = err,
                   !.newpath = th[p].newpath, !.bakpath = th[p].bakpath]

(* ----------------------------- CreateFile ----------------------------- *)

DeclSizes == {NoSize, 2}
DeclDigests == {NoDigest, MD5Digest(<<1, 1>>)}

\* The caller's arguments and the local head of CreateFile: newdoc.Path(c), bakpath.
CreateFileWith(p, olds) ==
    /\ Free(p)
    /\ nops < MaxOps
    /\ \E old \in olds, name \in Names, size \in DeclSizes, md5 \in DeclDigests :
          /\ old # NoDoc => name = old.name
          /\ LET dir == IF old # NoDoc THEN old.dirID ELSE RootDirID
                 newdoc == NewFileDoc(name, dir, size, md5, "text/plain", "text", Now,
                                      FALSE, <<>>)
             IN Set(p, [IdleTh EXCEPT
                    !.pc = IF old # NoDoc THEN "cf_stat" ELSE "cf_create",
                    !.op = "CreateFile",
                    !.newdoc = newdoc,
                    !.olddoc = old,
                    !.newpath = FileDocPath(newdoc),
                    !.bakpath = IF old # NoDoc THEN BakPath(old) ELSE "",
                    !.fid = p])
    /\ nops' = nops + 1
    /\ UNCHANGED <<fs, db, hist>>

\* CreateFile(c, newdoc, olddoc), olddoc nil or a revision the caller read earlier.
CreateFileCall(p) == CreateFileWith(p, hist \cup {NoDoc})

\* CreateFile(c, newdoc, olddoc) with an old document: a replace.
ReplaceCall(p) == CreateFileWith(p, hist)

\* safeRenameFile(newpath, bakpath), the Stat of the destination.
CreateFileStat(p) ==
    /\ th[p].pc = "cf_stat"
    /\ IF FsExists(fs, th[p].bakpath)
       THEN Set(p, Returned(p, ErrExist))
       ELSE Set(p, [th[p] EXCEPT !.pc = "cf_rename"])
    /\ UNCHANGED <<fs, db, hist, nops>>

\* Mutant of backupRenameError: the error of the rename is returned as it is.
backupRenameErrorRaw(err) == err

\* CreateFile on a failed backup rename: a missing source means another writer moved it.
backupRenameError(err) == IF err = ErrNotExist THEN ErrConflict ELSE err

\* Mutant of InheritIdentity: the new document keeps the creation time it came with.
InheritIdentityFreshDate(newdoc, olddoc) ==
    [newdoc EXCEPT !.id = olddoc.id, !.rev = olddoc.rev]

\* CreateFile with an old document: newdoc takes its id, revision and creation time.
InheritIdentity(newdoc, olddoc) ==
    [newdoc EXCEPT !.id = olddoc.id, !.rev = olddoc.rev, !.createdAt = olddoc.createdAt]

\* safeRenameFile(newpath, bakpath), the Rename; os.ErrNotExist becomes ErrConflict.
CreateFileRename(p) ==
    /\ th[p].pc = "cf_rename"
    /\ IF FsExists(fs, th[p].newpath)
       THEN /\ fs' = FsRename(fs, th[p].newpath, th[p].bakpath)
            /\ Set(p, [th[p] EXCEPT
                   !.pc = "cf_create",
                   !.newdoc = InheritIdentity(@, th[p].olddoc)])
       ELSE /\ fs' = fs
            /\ Set(p, Returned(p, backupRenameError(ErrNotExist)))
    /\ UNCHANGED <<db, hist, nops>>

\* Mutant of safeCreateFile: the file is opened without O_EXCL.
safeCreateFileNoExcl(p) ==
    /\ fs' = FsCreate(fs, th[p].newpath, th[p].fid, getFileMode(th[p].newdoc.exec))
    /\ Set(p, [th[p] EXCEPT
           !.pc = "open", !.ret = Nil,
           !.checkHash = th[p].newdoc.md5 # NoDigest])

\* safeCreateFile: the exclusive create of the target path.
safeCreateFile(p) ==
    IF FsExists(fs, th[p].newpath)
    THEN /\ fs' = fs
         /\ Set(p, Returned(p, ErrExist))
    ELSE /\ fs' = FsCreate(fs, th[p].newpath, th[p].fid, getFileMode(th[p].newdoc.exec))
         /\ Set(p, [th[p] EXCEPT
                !.pc = "open", !.ret = Nil,
                !.checkHash = th[p].newdoc.md5 # NoDigest])

CreateFileCreate(p) ==
    /\ th[p].pc = "cf_create"
    /\ safeCreateFile(p)
    /\ UNCHANGED <<db, hist, nops>>

(* ------------------------------- Write -------------------------------- *)

\* f.f.Write(p) took n bytes: all of them (no error) or fewer (an error).
FileWrite(p, chunk, n) ==
    IF n < Len(chunk)
    THEN [th[p] EXCEPT !.err = ErrWrite, !.ret = ErrWrite, !.nwrites = @ + 1]
    ELSE [th[p] EXCEPT !.w = @ + n, !.hash = @ \o chunk, !.ret = Nil, !.nwrites = @ + 1]

Write(p) ==
    /\ th[p].pc = "open"
    /\ th[p].nwrites < MaxWrites
    /\ \E chunk \in Chunks, n \in 0..2 :
          /\ n <= Len(chunk)
          /\ fs' = FsAppend(fs, th[p].fid, SubSeq(chunk, 1, n))
          /\ Set(p, FileWrite(p, chunk, n))
    /\ UNCHANGED <<db, hist, nops>>

(* ------------------------------- Close -------------------------------- *)

\* err = f.f.Close()
CloseUnderlying(p) ==
    /\ th[p].pc = "open"
    /\ \E ok \in BOOLEAN :
          IF ok THEN Set(p, [th[p] EXCEPT !.pc = "cl_commit", !.op = "Close"])
          ELSE Set(p, [th[p] EXCEPT !.pc = "cl_defer", !.op = "Close", !.cerr = ErrClose])
    /\ fs' = FsRelease(fs, th[p].fid)
    /\ UNCHANGED <<db, hist, nops>>

\* The document Close commits once the checks passed: unset size and digest filled in.
CloseDoc(p) ==
    [th[p].newdoc EXCEPT
        !.size = IF @ < 0 THEN th[p].w ELSE @,
        !.md5 = IF @ = NoDigest THEN MD5Digest(th[p].hash) ELSE @]

\* Mutant of CloseCheck: the size is checked before the digest.
CloseCheckSizeFirst(p) ==
    IF CloseDoc(p).size # th[p].w THEN ErrContentLengthMismatch
    ELSE IF th[p].checkHash /\ th[p].newdoc.md5 # MD5Digest(th[p].hash) THEN ErrInvalidHash
    ELSE Nil

\* The checks of Close, in the order of the code: Nil when they pass.
CloseCheck(p) ==
    IF th[p].checkHash /\ th[p].newdoc.md5 # MD5Digest(th[p].hash) THEN ErrInvalidHash
    ELSE IF CloseDoc(p).size # th[p].w THEN ErrContentLengthMismatch
    ELSE Nil

\* The checks, then couchdb.UpdateDoc or couchdb.CreateDoc.
CloseCommit(p) ==
    /\ th[p].pc = "cl_commit"
    /\ IF CloseCheck(p) # Nil
       THEN /\ Set(p, [th[p] EXCEPT
                   !.pc = "cl_defer", !.cerr = CloseCheck(p),
                   !.newdoc = IF CloseCheck(p) = ErrInvalidHash THEN @ ELSE CloseDoc(p)])
            /\ UNCHANGED <<db, hist>>
       ELSE IF th[p].olddoc # NoDoc
       THEN IF UpdateOK(CloseDoc(p))
            THEN /\ db' = DbPut(db, Updated(CloseDoc(p)))
                 /\ hist' = hist \cup {Updated(CloseDoc(p))}
                 /\ Set(p, [th[p] EXCEPT !.pc = "cl_defer", !.newdoc = Updated(CloseDoc(p))])
            ELSE /\ Set(p, [th[p] EXCEPT
                        !.pc = "cl_defer", !.newdoc = CloseDoc(p), !.cerr = ErrCouchConflict])
                 /\ UNCHANGED <<db, hist>>
       ELSE \E fault \in BOOLEAN :
            IF fault
            THEN /\ Set(p, [th[p] EXCEPT
                        !.pc = "cl_defer", !.newdoc = CloseDoc(p), !.cerr = ErrCouchFailure])
                 /\ UNCHANGED <<db, hist>>
            ELSE /\ db' = DbPut(db, Created(CloseDoc(p)))
                 /\ hist' = hist \cup {Created(CloseDoc(p))}
                 /\ Set(p, [th[p] EXCEPT !.pc = "cl_defer", !.newdoc = Created(CloseDoc(p))])
    /\ UNCHANGED <<fs, nops>>

\* Mutant of CloseCleanup: the latched write error is not looked at.
CloseCleanupNoWriteError(p) ==
    IF th[p].olddoc # NoDoc
    THEN IF th[p].cerr # Nil
         THEN IF FsExists(fs, th[p].bakpath)
              THEN FsRename(fs, th[p].bakpath, th[p].newpath)
              ELSE fs
         ELSE FsRemove(fs, th[p].bakpath)
    ELSE IF th[p].cerr # Nil
         THEN FsRemove(fs, th[p].newpath)
         ELSE fs

\* Mutant of CloseCleanup: an error of the final commit counts as success.
CloseCleanupKeepsOnCommitError(p) ==
    LET failed == (th[p].cerr # Nil /\ th[p].cerr \notin {ErrCouchConflict, ErrCouchFailure})
                  \/ th[p].err # Nil
    IN IF th[p].olddoc # NoDoc
       THEN IF failed
            THEN IF FsExists(fs, th[p].bakpath)
                 THEN FsRename(fs, th[p].bakpath, th[p].newpath)
                 ELSE fs
            ELSE FsRemove(fs, th[p].bakpath)
       ELSE IF failed
            THEN FsRemove(fs, th[p].newpath)
            ELSE fs

\* Mutant of CloseCleanup: after a successful replace the backup is left in place.
CloseCleanupKeepsBackup(p) ==
    IF th[p].olddoc # NoDoc
    THEN IF th[p].cerr # Nil \/ th[p].err # Nil
         THEN IF FsExists(fs, th[p].bakpath)
              THEN FsRename(fs, th[p].bakpath, th[p].newpath)
              ELSE fs
         ELSE fs
    ELSE IF th[p].cerr # Nil \/ th[p].err # Nil
         THEN FsRemove(fs, th[p].newpath)
         ELSE fs

\* The deferred cleanup of Close on the content store.
CloseCleanup(p) ==
    IF th[p].olddoc # NoDoc
    THEN IF th[p].cerr # Nil \/ th[p].err # Nil
         THEN IF FsExists(fs, th[p].bakpath)
              THEN FsRename(fs, th[p].bakpath, th[p].newpath)
              ELSE fs
         ELSE FsRemove(fs, th[p].bakpath)
    ELSE IF th[p].cerr # Nil \/ th[p].err # Nil
         THEN FsRemove(fs, th[p].newpath)
         ELSE fs

\* The deferred function runs and Close returns err.
CloseDefer(p) ==
    /\ th[p].pc = "cl_defer"
    /\ fs' = CloseCleanup(p)
    /\ Set(p, [IdleTh EXCEPT
           !.pc = "closed", !.op = "Close", !.ret = th[p].cerr, !.err = th[p].err,
           !.newdoc = th[p].newdoc, !.olddoc = th[p].olddoc, !.hash = th[p].hash,
           !.newpath = th[p].newpath, !.bakpath = th[p].bakpath])
    /\ UNCHANGED <<db, hist, nops>>

(* ------------------------ calls after Close --------------------------- *)

\* Close of the handle of thread p has returned after the commit of its document:
\* CreateDoc gave the document its id, or UpdateDoc its next revision.
Committed(p) ==
    /\ th[p].pc = "closed"
    /\ th[p].newdoc.id # ""
    /\ th[p].olddoc # NoDoc => th[p].newdoc.rev > th[p].olddoc.rev

\* Write on a handle that Close has closed: f.f.Write fails and the error is latched.
WriteAfterClose(p) ==
    /\ Committed(p)
    /\ th[p].err = Nil
    /\ Set(p, [th[p] EXCEPT !.err = ErrWrite, !.ret = ErrWrite])
    /\ UNCHANGED <<fs, db, hist, nops>>

\* Close once more on a handle that Close has closed, down to err = f.f.Close(), which
\* fails or not with the content store in use. The handle has all its fields still:
\* fc.w is the number of the bytes hashed, and the digest and the size of newdoc are
\* those the first Close checked or filled in, so that the checks pass again.
CloseAgain(p) ==
    /\ Committed(p)
    /\ nops < MaxOps
    /\ \E ok \in BOOLEAN :
          Set(p, [th[p] EXCEPT
              !.pc = IF ok THEN "cl_commit" ELSE "cl_defer",
              !.op = "Close",
              !.cerr = IF ok THEN Nil ELSE ErrClose,
              !.w = Len(th[p].hash),
              !.again = TRUE])
    /\ nops' = nops + 1
    /\ UNCHANGED <<fs, db, hist>>

(* ------------------------- ModifyFileMetadata ------------------------- *)

\* A patch field is a pointer: {} when nil, {v} when it points to v.
Deref(ptr, default) == IF ptr = {} THEN default ELSE CHOOSE v \in ptr : TRUE

\* Mutant of ModifiedDoc: the revision is read again from the store.
ModifiedDocCurrentRev(olddoc, patch) ==
    [NewFileDoc(Deref(patch.name, olddoc.name), Deref(patch.dirID, olddoc.dirID),
                olddoc.size, olddoc.md5, olddoc.mime, olddoc.class, olddoc.createdAt,
                Deref(patch.exec, olddoc.exec), Deref(patch.tags, olddoc.tags))
        EXCEPT !.restorePath = Deref(patch.restorePath, olddoc.restorePath),
               !.id = olddoc.id,
               !.rev = IF olddoc.id \in DOMAIN db THEN db[olddoc.id].rev ELSE olddoc.rev]

\* The document ModifyFileMetadata builds from olddoc and the normalized patch.
ModifiedDoc(olddoc, patch) ==
    [NewFileDoc(Deref(patch.name, olddoc.name), Deref(patch.dirID, olddoc.dirID),
                olddoc.size, olddoc.md5, olddoc.mime, olddoc.class, olddoc.createdAt,
                Deref(patch.exec, olddoc.exec), Deref(patch.tags, olddoc.tags))
        EXCEPT !.restorePath = Deref(patch.restorePath, olddoc.restorePath),
               !.id = olddoc.id,
               !.rev = olddoc.rev]

Patches ==
    [name : {{}} \cup {{n} : n \in Names}, dirID : {{}}, restorePath : {{}},
     exec : {{}, {TRUE}}, tags : {{}}]

\* Where ModifyFileMetadata goes on after the rename, if any.
AfterRename(olddoc, newdoc) ==
    IF newdoc.exec # olddoc.exec THEN "mf_chmod" ELSE "mf_commit"

\* The caller's arguments and the local head of ModifyFileMetadata, down to the paths.
ModifyCall(p) ==
    /\ Free(p)
    /\ nops < MaxOps
    /\ \E old \in hist, patch \in Patches :
          LET newdoc == ModifiedDoc(old, patch)
          IN Set(p, [IdleTh EXCEPT
                 !.pc = IF FileDocPath(newdoc) # FileDocPath(old)
                        THEN "mf_stat" ELSE AfterRename(old, newdoc),
                 !.op = "ModifyFileMetadata",
                 !.newdoc = newdoc,
                 !.olddoc = old,
                 !.oldpath = FileDocPath(old),
                 !.newpath = FileDocPath(newdoc)])
    /\ nops' = nops + 1
    /\ UNCHANGED <<fs, db, hist>>

\* safeRenameFile(oldpath, newpath), the Stat of the destination.
ModifyStat(p) ==
    /\ th[p].pc = "mf_stat"
    /\ IF FsExists(fs, th[p].newpath)
       THEN Set(p, Returned(p, ErrExist))
       ELSE Set(p, [th[p] EXCEPT !.pc = "mf_rename"])
    /\ UNCHANGED <<fs, db, hist, nops>>

\* safeRenameFile(oldpath, newpath), the Rename.
ModifyRename(p) ==
    /\ th[p].pc = "mf_rename"
    /\ IF FsExists(fs, th[p].oldpath)
       THEN /\ fs' = FsRename(fs, th[p].oldpath, th[p].newpath)
            /\ Set(p, [th[p] EXCEPT !.pc = AfterRename(th[p].olddoc, th[p].newdoc)])
       ELSE /\ fs' = fs
            /\ Set(p, Returned(p, ErrNotExist))
    /\ UNCHANGED <<db, hist, nops>>

\* c.FS().Chmod(newpath, getFileMode(newdoc.Executable))
ModifyChmod(p) ==
    /\ th[p].pc = "mf_chmod"
    /\ IF FsExists(fs, th[p].newpath)
       THEN /\ fs' = FsChmod(fs, th[p].newpath, getFileMode(th[p].newdoc.exec))
            /\ Set(p, [th[p] EXCEPT !.pc = "mf_commit"])
       ELSE /\ fs' = fs
            /\ Set(p, Returned(p, ErrNotExist))
    /\ UNCHANGED <<db, hist, nops>>

\* Mutant of ModifyCommit: a failed UpdateDoc moves the content back.
ModifyCommitRollsBack(p) ==
    /\ th[p].pc = "mf_commit"
    /\ IF UpdateOK(th[p].newdoc)
       THEN /\ db' = DbPut(db, Updated(th[p].newdoc))
            /\ hist' = hist \cup {Updated(th[p].newdoc)}
            /\ Set(p, [Returned(p, Nil) EXCEPT !.newdoc = Updated(th[p].newdoc)])
            /\ fs' = fs
       ELSE /\ Set(p, [Returned(p, ErrCouchConflict) EXCEPT !.newdoc = th[p].newdoc])
            /\ fs' = IF th[p].newpath # th[p].oldpath /\ FsExists(fs, th[p].newpath)
                     THEN FsRename(fs, th[p].newpath, th[p].oldpath)
                     ELSE fs
            /\ UNCHANGED <<db, hist>>
    /\ UNCHANGED nops

\* couchdb.UpdateDoc(c, newdoc), and the return of newdoc and err.
ModifyCommit(p) ==
    /\ th[p].pc = "mf_commit"
    /\ IF UpdateOK(th[p].newdoc)
       THEN /\ db' = DbPut(db, Updated(th[p].newdoc))
            /\ hist' = hist \cup {Updated(th[p].newdoc)}
            /\ Set(p, [Returned(p, Nil) EXCEPT !.newdoc = Updated(th[p].newdoc),
                                               !.parent = th[p].parent])
       ELSE /\ Set(p, [Returned(p, ErrCouchConflict) EXCEPT !.newdoc = th[p].newdoc,
                                                            !.parent = th[p].parent])
            /\ UNCHANGED <<db, hist>>
    /\ UNCHANGED <<fs, nops>>

\* Patches of every field but the parent, the tags with a repetition.
FramePatches ==
    [name : {{}, {"b"}}, dirID : {{}}, restorePath : {{}, {"/"}},
     exec : {{}, {TRUE}}, tags : {{}, {<<"u", "u">>}}]

\* ModifyFileMetadata(c, olddoc, patch) with such a patch, down to the paths: th.patch
\* is the patch of the caller.
PatchCall(p) ==
    /\ Free(p)
    /\ nops < MaxOps
    /\ \E old \in hist, patch \in FramePatches :
          LET newdoc == ModifiedDoc(old, patch)
          IN Set(p, [IdleTh EXCEPT
                 !.pc = IF FileDocPath(newdoc) # FileDocPath(old)
                        THEN "mf_stat" ELSE AfterRename(old, newdoc),
                 !.op = "ModifyFileMetadata",
                 !.newdoc = newdoc,
                 !.olddoc = old,
                 !.oldpath = FileDocPath(old),
                 !.newpath = FileDocPath(newdoc),
                 !.patch = patch])
    /\ nops' = nops + 1
    /\ UNCHANGED <<fs, db, hist>>

\* The file "/a" with a tag, and with a reference that AddReferencedBy gave it.
TaggedDoc == [InitDoc EXCEPT !.tags = <<"t">>, !.referencedBy = <<"r1">>]

InitPatch ==
    /\ fs = [q \in {"/a"} |-> [fid |-> "", data |-> <<2>>, mode |-> "0644"]]
    /\ db = [i \in {"f1"} |-> TaggedDoc]
    /\ hist = {TaggedDoc}
    /\ th = [p \in Procs |-> IdleTh]
    /\ nops = 0

(* ---------------------- TrashFile and RestoreFile ---------------------- *)

ErrFileInTrash == "vfs.ErrFileInTrash"
ErrFileNotInTrash == "vfs.ErrFileNotInTrash"

\* Mutant of InTrash: no path counts as lying in the trash.
InTrashNever(path) == FALSE

\* strings.HasPrefix(oldpath, TrashDirName)
InTrash(path) == HasPrefix(path, TrashDirName)

\* Mutant of getRestoreDir: a file outside the trash goes to the root directory.
getRestoreDirAnywhere(oldpath, restorePath) ==
    IF restorePath = TrashDirName THEN [err |-> Nil, id |-> TrashDirID]
    ELSE [err |-> Nil, id |-> RootDirID]

\* getRestoreDir(c, oldpath, restorePath): the directory at restorePath, for a file
\* of the trash; the tree holds the root and the trash directory.
getRestoreDir(oldpath, restorePath) ==
    IF ~HasPrefix(oldpath, TrashDirName) THEN [err |-> ErrFileNotInTrash, id |-> ""]
    ELSE IF restorePath = "/" THEN [err |-> Nil, id |-> RootDirID]
    ELSE IF restorePath = TrashDirName THEN [err |-> Nil, id |-> TrashDirID]
    ELSE [err |-> ErrNotExist, id |-> ""]

\* tryOrUseSuffix: the name it hands to the operation after nconflict collisions.
tryName(op, olddoc, nconflict) ==
    LET name == IF op = "TrashFile" THEN olddoc.name
                ELSE stripSuffix(olddoc.name, conflictSuffix)
    IN IF nconflict = 0 THEN name
       ELSE IF op = "TrashFile" THEN conflictFormat(name, nconflict)
       ELSE restoreFormat(name, nconflict)

\* Mutant of tryPatch: RestoreFile leaves RestorePath out of its patch.
tryPatchKeepsRestorePath(op, olddoc, nconflict) ==
    [name |-> {tryName(op, olddoc, nconflict)},
     dirID |-> IF op = "TrashFile" THEN {TrashDirID}
               ELSE {getRestoreDir(FileDocPath(olddoc), olddoc.restorePath).id},
     restorePath |-> IF op = "TrashFile" THEN {PathDir(FileDocPath(olddoc))} ELSE {},
     exec |-> {}, tags |-> {}]

\* The patch TrashFile or RestoreFile passes to ModifyFileMetadata for that name.
tryPatch(op, olddoc, nconflict) ==
    [name |-> {tryName(op, olddoc, nconflict)},
     dirID |-> IF op = "TrashFile" THEN {TrashDirID}
               ELSE {getRestoreDir(FileDocPath(olddoc), olddoc.restorePath).id},
     restorePath |-> IF op = "TrashFile" THEN {PathDir(FileDocPath(olddoc))} ELSE {""},
     exec |-> {}, tags |-> {}]

\* The thread after TrashFile or RestoreFile returned doc and err.
Done(p, err, doc) ==
    [IdleTh EXCEPT !.op = th[p].op, !.ret = err, !.olddoc = th[p].olddoc,
                   !.newdoc = doc, !.nconflict = th[p].nconflict]

\* One call of the operation by tryOrUseSuffix: the local head of ModifyFileMetadata.
TryWith(op, olddoc, nconflict) ==
    LET newdoc == ModifiedDoc(olddoc, tryPatch(op, olddoc, nconflict))
    IN [IdleTh EXCEPT
           !.pc = IF FileDocPath(newdoc) # FileDocPath(olddoc) THEN "ts_stat" ELSE "ts_commit",
           !.op = op,
           !.newdoc = newdoc,
           !.olddoc = olddoc,
           !.oldpath = FileDocPath(olddoc),
           !.newpath = FileDocPath(newdoc),
           !.nconflict = nconflict]

\* TrashFile(c, olddoc), down to the first call of ModifyFileMetadata.
TrashCall(p) ==
    /\ Free(p)
    /\ nops < MaxOps
    /\ \E old \in hist :
          IF InTrash(FileDocPath(old))
          THEN Set(p, [IdleTh EXCEPT !.op = "TrashFile", !.ret = ErrFileInTrash,
                                     !.olddoc = old])
          ELSE Set(p, TryWith("TrashFile", old, 0))
    /\ nops' = nops + 1
    /\ UNCHANGED <<fs, db, hist>>

\* Mutant of RestoreCall: the error of getRestoreDir is not looked at.
RestoreCallIgnoresError(p) ==
    /\ Free(p)
    /\ nops < MaxOps
    /\ \E old \in hist : Set(p, TryWith("RestoreFile", old, 0))
    /\ nops' = nops + 1
    /\ UNCHANGED <<fs, db, hist>>

\* RestoreFile(c, olddoc), down to the first call of ModifyFileMetadata.
RestoreCall(p) ==
    /\ Free(p)
    /\ nops < MaxOps
    /\ \E old \in hist :
          LET restoreDir == getRestoreDir(FileDocPath(old), old.restorePath)
          IN IF restoreDir.err # Nil
             THEN Set(p, [IdleTh EXCEPT !.op = "RestoreFile", !.ret = restoreDir.err,
                                        !.olddoc = old])
             ELSE Set(p, TryWith("RestoreFile", old, 0))
    /\ nops' = nops + 1
    /\ UNCHANGED <<fs, db, hist>>

\* tryOrUseSuffix calls the operation MaxTries times at most.
MaxTries == 3

\* tryOrUseSuffix after the operation returned err: it goes on with the next name
\* only after a collision, and only while it has tries left.
TriesAgain(err, nconflict) == err = ErrExist /\ nconflict + 1 < MaxTries

\* safeRenameFile(oldpath, newpath), the Stat: on os.ErrExist the next name is tried,
\* and the last os.ErrExist is what TrashFile or RestoreFile returns.
TryStat(p) ==
    /\ th[p].pc = "ts_stat"
    /\ IF FsExists(fs, th[p].newpath)
       THEN IF TriesAgain(ErrExist, th[p].nconflict)
            THEN Set(p, TryWith(th[p].op, th[p].olddoc, th[p].nconflict + 1))
            ELSE Set(p, Done(p, ErrExist, NoDoc))
       ELSE Set(p, [th[p] EXCEPT !.pc = "ts_rename"])
    /\ UNCHANGED <<fs, db, hist, nops>>

\* safeRenameFile(oldpath, newpath), the Rename.
TryRename(p) ==
    /\ th[p].pc = "ts_rename"
    /\ IF FsExists(fs, th[p].oldpath)
       THEN /\ fs' = FsRename(fs, th[p].oldpath, th[p].newpath)
            /\ Set(p, [th[p] EXCEPT !.pc = "ts_commit"])
       ELSE /\ fs' = fs
            /\ Set(p, Done(p, ErrNotExist, NoDoc))
    /\ UNCHANGED <<db, hist, nops>>

\* Mutant of TryCommit: after a conflict of revisions the next name is tried.
TryCommitRetries(p) ==
    /\ th[p].pc = "ts_commit"
    /\ IF UpdateOK(th[p].newdoc)
       THEN /\ db' = DbPut(db, Updated(th[p].newdoc))
            /\ hist' = hist \cup {Updated(th[p].newdoc)}
            /\ Set(p, Done(p, Nil, Updated(th[p].newdoc)))
       ELSE /\ IF th[p].nconflict + 1 < MaxTries
               THEN Set(p, TryWith(th[p].op, th[p].olddoc, th[p].nconflict + 1))
               ELSE Set(p, Done(p, ErrCouchConflict, th[p].newdoc))
            /\ UNCHANGED <<db, hist>>
    /\ UNCHANGED <<fs, nops>>

\* couchdb.UpdateDoc(c, newdoc), and the return of newdoc and err.
TryCommit(p) ==
    /\ th[p].pc = "ts_commit"
    /\ IF UpdateOK(th[p].newdoc)
       THEN /\ db' = DbPut(db, Updated(th[p].newdoc))
            /\ hist' = hist \cup {Updated(th[p].newdoc)}
            /\ Set(p, Done(p, Nil, Updated(th[p].newdoc)))
       ELSE /\ Set(p, Done(p, ErrCouchConflict, th[p].newdoc))
            /\ UNCHANGED <<db, hist>>
    /\ UNCHANGED <<fs, nops>>

\* The patches of a caller that moves a file or sets its restore path.
MovePatches ==
    [name : {{}}, dirID : {{}, {RootDirID}, {TrashDirID}}, restorePath : {{}, {"/"}},
     exec : {{}}, tags : {{}}]

\* ModifyFileMetadata(c, olddoc, patch) with such a patch, down to the paths.
MoveCall(p) ==
    /\ Free(p)
    /\ nops < MaxOps
    /\ \E old \in hist, patch \in MovePatches :
          LET newdoc == ModifiedDoc(old, patch)
          IN Set(p, [IdleTh EXCEPT
                 !.pc = IF FileDocPath(newdoc) # FileDocPath(old)
                        THEN "mf_stat" ELSE AfterRename(old, newdoc),
                 !.op = "ModifyFileMetadata",
                 !.newdoc = newdoc,
                 !.olddoc = old,
                 !.oldpath = FileDocPath(old),
                 !.newpath = FileDocPath(newdoc)])
    /\ nops' = nops + 1
    /\ UNCHANGED <<fs, db, hist>>

\* A file "/a" that was trashed and restored once, a trashed file "a" that was at
\* "/a" before it, and a file of the root whose name ends like a name of the trash.
TrashedDoc ==
    [InitDoc EXCEPT !.id = "f2", !.rev = 2, !.dirID = TrashDirID, !.restorePath = "/",
                    !.md5 = MD5Digest(<<3>>)]

RestoredDoc == [InitDoc EXCEPT !.rev = 3]

SuffixedDoc ==
    [InitDoc EXCEPT !.id = "f3", !.name = conflictFormat("a", 1),
                    !.md5 = MD5Digest(<<4>>)]

InitTrash ==
    /\ fs = [q \in {"/a", "/.cozy_trash/a", FileDocPath(SuffixedDoc)} |->
                [fid |-> "",
                 data |-> IF q = "/a" THEN <<2>> ELSE IF q = "/.cozy_trash/a" THEN <<3>>
                          ELSE <<4>>,
                 mode |-> "0644"]]
    /\ db = [i \in {"f1", "f2", "f3"} |->
                IF i = "f1" THEN RestoredDoc ELSE IF i = "f2" THEN TrashedDoc
                ELSE SuffixedDoc]
    /\ hist = {InitDoc,
               [InitDoc EXCEPT !.rev = 2, !.name = conflictFormat("a", 1),
                               !.dirID = TrashDirID, !.restorePath = "/"],
               RestoredDoc,
               [TrashedDoc EXCEPT !.rev = 1, !.dirID = RootDirID, !.restorePath = ""],
               TrashedDoc,
               SuffixedDoc}
    /\ th = [p \in Procs |-> IdleTh]
    /\ nops = 0

(* --------------------------- Open and Read ---------------------------- *)

\* Open(c, doc): c.FS().Open(doc.Path(c)). The handle is on the file that is at the
\* path now: th.fid is the writer that file has, th.rbuf the bytes it holds.
Open(p) ==
    /\ Free(p)
    /\ nops < MaxOps
    /\ \E doc \in hist :
          LET name == FileDocPath(doc)
          IN IF FsExists(fs, name)
             THEN Set(p, [IdleTh EXCEPT
                      !.pc = "rd_open", !.op = "Open", !.olddoc = doc, !.newpath = name,
                      !.fid = fs[name].fid, !.rbuf = fs[name].data])
             ELSE Set(p, [IdleTh EXCEPT
                      !.op = "Open", !.ret = ErrNotExist, !.olddoc = doc, !.newpath = name])
    /\ nops' = nops + 1
    /\ UNCHANGED <<fs, db, hist>>

\* The bytes the opened file holds now: those its writer, if it still has one, has
\* written so far.
FileData(p) ==
    IF th[p].fid # "" /\ \E q \in DOMAIN fs : fs[q].fid = th[p].fid
    THEN fs[CHOOSE q \in DOMAIN fs : fs[q].fid = th[p].fid].data
    ELSE th[p].rbuf

\* Read on a handle of Open (f.fc is nil), to the end of the file, and its Close.
Read(p) ==
    /\ th[p].pc = "rd_open"
    /\ Set(p, [IdleTh EXCEPT
           !.op = "Read", !.ret = Nil, !.olddoc = th[p].olddoc,
           !.newpath = th[p].newpath, !.rbuf = FileData(p)])
    /\ UNCHANGED <<fs, db, hist, nops>>

\* CreateFile(c, newdoc, nil): a pure creation.
CreateCall(p) == CreateFileWith(p, {NoDoc})

(* ------------------------------ data API ------------------------------ *)

ErrBadRequest == "http.StatusBadRequest"
ErrForbidden == "http.StatusForbidden"
ErrNotFound == "couchdb: not_found"

\* A doctype any request may read and write, one it may only read, one it may neither
\* read nor write.
Doctypes == {"io.cozy.events", "io.cozy.settings", "io.cozy.instances"}
DocIDs == {"e1", "e2"}
DocRevs == {"1", "2"}

\* CheckReadable(c, doctype) and CheckWritable(c, doctype): nil when they pass.
CheckReadable(doctype) ==
    IF doctype \in {"io.cozy.events", "io.cozy.settings"} THEN Nil ELSE ErrForbidden
CheckWritable(doctype) ==
    IF doctype = "io.cozy.events" THEN Nil ELSE ErrForbidden

\* A call a handler makes: a permission check or a call of the store, its argument,
\* and the error it returned.
Called(fn, arg, err) == [fn |-> fn, arg |-> arg, err |-> err]

\* The documents of the data API: one per doctype in the store.
DataDoc(doctype, id, rev) == [type |-> doctype, id |-> id, rev |-> rev]

InitData ==
    /\ db = [i \in {"e1", "s1", "i1"} |->
                 DataDoc(IF i = "e1" THEN "io.cozy.events"
                         ELSE IF i = "s1" THEN "io.cozy.settings"
                         ELSE "io.cozy.instances", i, "1")]
    /\ fs = <<>>
    /\ hist = {}
    /\ th = [p \in Procs |-> IdleTh]
    /\ nops = 0

\* The store has the document docid of that doctype.
HasDoc(d, doctype, docid) == docid \in DOMAIN d /\ d[docid].type = doctype

NextRev(rev) == IF rev = "1" THEN "2" ELSE "3"

\* couchdb.Delete(instance, doctype, docid, rev)
CouchDelete(d, doctype, docid, rev) ==
    IF ~HasDoc(d, doctype, docid) THEN [err |-> ErrNotFound, db |-> d]
    ELSE IF d[docid].rev # rev THEN [err |-> ErrCouchConflict, db |-> d]
    ELSE [err |-> Nil, db |-> [i \in DOMAIN d \ {docid} |-> d[i]]]

\* couchdb.UpdateDoc(instance, doc)
CouchUpdate(d, doctype, id, rev) ==
    IF ~HasDoc(d, doctype, id) THEN [err |-> ErrNotFound, db |-> d]
    ELSE IF d[id].rev # rev THEN [err |-> ErrCouchConflict, db |-> d]
    ELSE [err |-> Nil, db |-> [d EXCEPT ![id].rev = NextRev(rev)]]

\* couchdb.CreateNamedDoc(instance, doc)
CouchCreateNamed(d, doctype, id) ==
    IF id \in DOMAIN d THEN [err |-> ErrCouchConflict, db |-> d]
    ELSE [err |-> Nil,
          db |-> [i \in DOMAIN d \cup {id} |->
                     IF i = id THEN DataDoc(doctype, id, "1") ELSE d[i]]]

\* A call of the store that reads: its error.
CouchRead(d, doctype, docid) ==
    IF docid # "" /\ ~HasDoc(d, doctype, docid) THEN ErrNotFound ELSE Nil

\* What a handler did: the error it returned, the calls it made, the store after it.
Answer(err, calls, d) == [err |-> err, calls |-> calls, db |-> d]

\* Mutant of deleteDoc: of two revisions that differ, the one of the query is used.
deleteDocQueryWins(d, r) ==
    LET rev == IF r.revQuery # "" THEN r.revQuery ELSE r.revHeader
        perm == CheckWritable(r.doctype)
        del == CouchDelete(d, r.doctype, r.docid, rev)
    IN IF r.revHeader = "" /\ r.revQuery = "" THEN Answer(ErrBadRequest, <<>>, d)
       ELSE IF perm # Nil
       THEN Answer(perm, <<Called("CheckWritable", r.doctype, perm)>>, d)
       ELSE Answer(del.err, <<Called("CheckWritable", r.doctype, Nil),
                              Called("couchdb.Delete", rev, del.err)>>, del.db)

deleteDoc(d, r) ==
    LET rev == IF r.revHeader # "" THEN r.revHeader ELSE r.revQuery
        perm == CheckWritable(r.doctype)
        del == CouchDelete(d, r.doctype, r.docid, rev)
    IN IF r.revHeader # "" /\ r.revQuery # "" /\ r.revQuery # r.revHeader
       THEN Answer(ErrBadRequest, <<>>, d)
       ELSE IF r.revHeader = "" /\ r.revQuery = "" THEN Answer(ErrBadRequest, <<>>, d)
       ELSE IF perm # Nil
       THEN Answer(perm, <<Called("CheckWritable", r.doctype, perm)>>, d)
       ELSE Answer(del.err, <<Called("CheckWritable", r.doctype, Nil),
                              Called("couchdb.Delete", rev, del.err)>>, del.db)

\* Mutant of updateDoc: a body with a revision and no id is an update of the document
\* of the URL.
updateDocRevOnly(d, r) ==
    LET perm == CheckWritable(r.doctype)
        id == IF r.id = "" THEN r.docid ELSE r.id
        upd == CouchUpdate(d, r.doctype, id, r.rev)
        new == CouchCreateNamed(d, r.doctype, r.docid)
    IN IF ~r.bind THEN Answer(ErrBadRequest, <<>>, d)
       ELSE IF perm # Nil
       THEN Answer(perm, <<Called("CheckWritable", r.doctype, perm)>>, d)
       ELSE IF r.id # "" /\ r.rev = ""
       THEN Answer(ErrBadRequest, <<Called("CheckWritable", r.doctype, Nil)>>, d)
       ELSE IF r.id # "" /\ r.id # r.docid
       THEN Answer(ErrBadRequest, <<Called("CheckWritable", r.doctype, Nil)>>, d)
       ELSE IF r.rev = ""
       THEN Answer(new.err, <<Called("CheckWritable", r.doctype, Nil),
                              Called("couchdb.CreateNamedDoc", r.docid, new.err)>>, new.db)
       ELSE Answer(upd.err, <<Called("CheckWritable", r.doctype, Nil),
                              Called("couchdb.UpdateDoc", id, upd.err)>>, upd.db)

updateDoc(d, r) ==
    LET perm == CheckWritable(r.doctype)
        upd == CouchUpdate(d, r.doctype, r.id, r.rev)
        new == CouchCreateNamed(d, r.doctype, r.docid)
    IN IF ~r.bind THEN Answer(ErrBadRequest, <<>>, d)
       ELSE IF perm # Nil
       THEN Answer(perm, <<Called("CheckWritable", r.doctype, perm)>>, d)
       ELSE IF (r.id = "") # (r.rev = "")
       THEN Answer(ErrBadRequest, <<Called("CheckWritable", r.doctype, Nil)>>, d)
       ELSE IF r.id # "" /\ r.id # r.docid
       THEN Answer(ErrBadRequest, <<Called("CheckWritable", r.doctype, Nil)>>, d)
       ELSE IF r.id = ""
       THEN Answer(new.err, <<Called("CheckWritable", r.doctype, Nil),
                              Called("couchdb.CreateNamedDoc", r.docid, new.err)>>, new.db)
       ELSE Answer(upd.err, <<Called("CheckWritable", r.doctype, Nil),
                              Called("couchdb.UpdateDoc", r.id, upd.err)>>, upd.db)

\* A handler that checks a permission and then makes one call of the store.
checked(perm, check, r, fn, arg, err, d) ==
    IF perm # Nil THEN Answer(perm, <<Called(check, r.doctype, perm)>>, d)
    ELSE Answer(err, <<Called(check, r.doctype, Nil), Called(fn, arg, err)>>, d)

dbStatus(d, r) ==
    checked(CheckReadable(r.doctype), "CheckReadable", r, "couchdb.DBStatus", "", Nil, d)

getDoc(d, r) ==
    LET perm == CheckReadable(r.doctype)
        checks == <<Called("CheckReadable", r.doctype, perm)>>
        got == CouchRead(d, r.doctype, r.docid)
    IN IF perm # Nil THEN Answer(perm, checks, d)
       ELSE IF r.docid = ""
       THEN Answer(Nil, checks \o dbStatus(d, r).calls, d)
       ELSE IF r.revs = "true"
       THEN Answer(Nil, checks \o <<Called("couchdb.Proxy GET", r.docid, Nil)>>, d)
       ELSE Answer(got, checks \o <<Called("couchdb.GetDoc", r.docid, got)>>, d)

\* The id couchdb.CreateDoc gives a new document.
NewDocID(d) == CHOOSE i \in {"e3", "e4", "e5", "e6"} : i \notin DOMAIN d

\* createDoc: the store gives the document its id.
createDoc(d, r) ==
    LET perm == CheckWritable(r.doctype)
        new == CouchCreateNamed(d, r.doctype, NewDocID(d))
    IN IF ~r.bind THEN Answer(ErrBadRequest, <<>>, d)
       ELSE IF perm # Nil
       THEN Answer(perm, <<Called("CheckWritable", r.doctype, perm)>>, d)
       ELSE Answer(new.err, <<Called("CheckWritable", r.doctype, Nil),
                              Called("couchdb.CreateDoc", "", new.err)>>, new.db)

\* defineIndex, with or without the database of the doctype in the store: r.revs
\* stands for the answer of the store that there is none.
defineIndex(d, r) ==
    LET perm == CheckReadable(r.doctype)
        checks == <<Called("CheckReadable", r.doctype, perm)>>
    IN IF ~r.bind THEN Answer(ErrBadRequest, <<>>, d)
       ELSE IF perm # Nil THEN Answer(perm, checks, d)
       ELSE IF r.revs = "true"
       THEN Answer(Nil, checks \o <<Called("couchdb.DefineIndexRaw", "", ErrNotFound),
                                    Called("couchdb.CreateDB", r.doctype, Nil),
                                    Called("couchdb.DefineIndexRaw", "", Nil)>>, d)
       ELSE Answer(Nil, checks \o <<Called("couchdb.DefineIndexRaw", "", Nil)>>, d)

findDocuments(d, r) ==
    IF ~r.bind THEN Answer(ErrBadRequest, <<>>, d)
    ELSE checked(CheckReadable(r.doctype), "CheckReadable", r,
                 "couchdb.FindDocsRaw", "", Nil, d)

\* changesFeed: r.bind stands for query parameters the handler accepts.
changesFeed(d, r) ==
    IF ~r.bind THEN Answer(ErrBadRequest, <<>>, d)
    ELSE Answer(Nil, <<Called("couchdb.GetChanges", r.doctype, Nil)>>, d)

allDocs(d, r) ==
    checked(CheckReadable(r.doctype), "CheckReadable", r,
            "couchdb.Proxy GET", "_all_docs", Nil, d)

\* getDesignDoc: without revs=true the answer is a response of status 400, and the
\* handler returns nil.
getDesignDoc(d, r) ==
    IF r.revs = "true"
    THEN Answer(Nil, <<Called("couchdb.Proxy GET", "_design/" \o r.docid, Nil)>>, d)
    ELSE Answer(Nil, <<>>, d)

getLocalDoc(d, r) ==
    checked(CheckReadable(r.doctype), "CheckReadable", r,
            "couchdb.Proxy GET", "_local/" \o r.docid, Nil, d)

setLocalDoc(d, r) ==
    checked(CheckReadable(r.doctype), "CheckReadable", r,
            "couchdb.Proxy PUT", "_local/" \o r.docid, Nil, d)

bulkGet(d, r) ==
    checked(CheckReadable(r.doctype), "CheckReadable", r,
            "couchdb.Proxy GET", "_bulk_get", Nil, d)

fullCommit(d, r) ==
    checked(CheckReadable(r.doctype), "CheckReadable", r,
            "couchdb.Proxy POST", "_ensure_full_commit", Nil, d)

\* The requests of a route with a document id, and those of the other routes.
DocRequests ==
    [doctype : Doctypes, docid : DocIDs, revHeader : {""} \cup DocRevs,
     revQuery : {""} \cup DocRevs, revs : {""}, bind : BOOLEAN,
     id : {""} \cup DocIDs, rev : {""} \cup DocRevs]
Requests ==
    [doctype : Doctypes, docid : {"", "e1"}, revHeader : {""}, revQuery : {""},
     revs : {"", "true"}, bind : BOOLEAN, id : {""}, rev : {""}]

\* Thread p serves the request r of the route op with the answer a.
Serve(p, op, r, a) ==
    /\ Free(p)
    /\ nops < MaxOps
    /\ Set(p, [IdleTh EXCEPT !.op = op, !.req = r, !.ret = a.err, !.calls = a.calls])
    /\ db' = a.db
    /\ nops' = nops + 1
    /\ UNCHANGED <<fs, hist>>

\* DELETE /:doctype/:docid
DeleteDocReq(p) ==
    \E r \in DocRequests :
        /\ r.id = "" /\ r.rev = "" /\ r.bind
        /\ Serve(p, "deleteDoc", r, deleteDoc(db, r))

\* PUT /:doctype/:docid
UpdateDocReq(p) ==
    \E r \in DocRequests :
        /\ r.revHeader = "" /\ r.revQuery = ""
        /\ Serve(p, "updateDoc", r, updateDoc(db, r))

\* The routes of Routes and of replicationRoutes that take no revision.
GetDocReq(p) == \E r \in Requests : r.bind /\ Serve(p, "getDoc", r, getDoc(db, r))
CreateDocReq(p) ==
    \E r \in Requests :
        r.docid = "" /\ r.revs = "" /\ Serve(p, "createDoc", r, createDoc(db, r))
AllDocsReq(p) ==
    \E r \in Requests :
        r.docid = "" /\ r.revs = "" /\ r.bind /\ Serve(p, "allDocs", r, allDocs(db, r))
DefineIndexReq(p) ==
    \E r \in Requests :
        r.docid = "" /\ Serve(p, "defineIndex", r, defineIndex(db, r))
FindDocumentsReq(p) ==
    \E r \in Requests :
        r.docid = "" /\ r.revs = ""
        /\ Serve(p, "findDocuments", r, findDocuments(db, r))
ChangesFeedReq(p) ==
    \E r \in Requests :
        r.docid = "" /\ r.revs = "" /\ Serve(p, "changesFeed", r, changesFeed(db, r))
DbStatusReq(p) ==
    \E r \in Requests :
        r.docid = "" /\ r.revs = "" /\ r.bind /\ Serve(p, "dbStatus", r, dbStatus(db, r))
GetDesignDocReq(p) ==
    \E r \in Requests :
        r.docid = "e1" /\ r.bind /\ Serve(p, "getDesignDoc", r, getDesignDoc(db, r))
GetLocalDocReq(p) ==
    \E r \in Requests :
        r.docid = "e1" /\ r.revs = "" /\ r.bind
        /\ Serve(p, "getLocalDoc", r, getLocalDoc(db, r))
SetLocalDocReq(p) ==
    \E r \in Requests :
        r.docid = "e1" /\ r.revs = "" /\ r.bind
        /\ Serve(p, "setLocalDoc", r, setLocalDoc(db, r))
BulkGetReq(p) ==
    \E r \in Requests :
        r.docid = "" /\ r.revs = "" /\ r.bind /\ Serve(p, "bulkGet", r, bulkGet(db, r))
FullCommitReq(p) ==
    \E r \in Requests :
        r.docid = "" /\ r.revs = "" /\ r.bind
        /\ Serve(p, "fullCommit", r, fullCommit(db, r))

(* ------------------------- a tree of directories ---------------------- *)

\* The ids a directory of the tree can have as its parent: the root, the other
\* directory, a directory that is not in the store.
DirIDs == {RootDirID, "d1", "d2", "d9"}

\* The store with the directories "x" (d1) and "y" (d2) under the parents up, the file
\* "a" of the root and the file "b" of d1.
TreeDb(up) ==
    [i \in {"d1", "d2", "f1", "f2"} |->
        IF i = "d1" THEN DirDoc("d1", "x", up[1])
        ELSE IF i = "d2" THEN DirDoc("d2", "y", up[2])
        ELSE IF i = "f1" THEN InitDoc
        ELSE [InitDoc EXCEPT !.id = "f2", !.name = "b", !.dirID = "d1",
                             !.md5 = MD5Digest(<<3>>)]]

\* The content store of that tree: an entry at the path of every file that has one.
TreeFs(d) ==
    LET files == {i \in DOMAIN d : d[i].type = FileType /\ Path(d, d[i], NoDir).err = Nil}
    IN [q \in {Path(d, d[i], NoDir).path : i \in files} |->
           [fid |-> "", data |-> IF q = "/a" THEN <<2>> ELSE <<3>>, mode |-> "0644"]]

\* No directory is its own ancestor.
Acyclic(up) == ~(up[1] = "d2" /\ up[2] = "d1") /\ up[1] # "d1" /\ up[2] # "d2"

InitTree ==
    /\ \E up \in [{1, 2} -> DirIDs] :
          /\ Acyclic(up)
          /\ db = TreeDb(up)
          /\ fs = TreeFs(TreeDb(up))
    /\ hist = {db[i] : i \in {"f1", "f2"}}
    /\ th = [p \in Procs |-> IdleTh]
    /\ nops = 0

\* path.IsAbs and path.Base of a clean path.
PathIsAbs(name) == Len(name) > 0 /\ SubSeq(name, 1, 1) = "/"
PathBase(name) == SubSeq(name, LastIndex(name, "/", Len(name)) + 1, Len(name))

\* Mutant of GetFileDoc: the type of the document is not looked at.
GetFileDocAnyType(d, fileID) ==
    IF fileID \notin DOMAIN d THEN [err |-> ErrNotExist, doc |-> NoDoc]
    ELSE [err |-> Nil, doc |-> d[fileID]]

\* GetFileDoc(c, fileID): the document of that id, if it is the document of a file.
GetFileDoc(d, fileID) ==
    IF fileID \notin DOMAIN d THEN [err |-> ErrNotExist, doc |-> NoDoc]
    ELSE IF d[fileID].type # FileType THEN [err |-> ErrNotExist, doc |-> NoDoc]
    ELSE [err |-> Nil, doc |-> d[fileID]]

\* GetDirDocFromPath(c, dirpath, false): the root for "/", the directory of the store
\* with that path otherwise.
GetDirDocFromPath(d, dirpath) ==
    LET dirs == {i \in DOMAIN d : /\ d[i].type = DirType
                                  /\ DirPath(d, d[i]).err = Nil
                                  /\ DirPath(d, d[i]).path = dirpath}
    IN IF dirpath = "/" THEN [err |-> Nil, dir |-> RootDir]
       ELSE IF dirs = {} THEN [err |-> ErrNotExist, dir |-> NoDir]
       ELSE [err |-> Nil, dir |-> d[CHOOSE i \in dirs : TRUE]]

\* couchdb.FindDocs with the selector of GetFileDocFromPath: the documents of type
\* file with that parent and that name.
FindFileDocs(d, dirID, name) ==
    {d[i] : i \in {j \in DOMAIN d : /\ d[j].type = FileType
                                    /\ d[j].dirID = dirID
                                    /\ d[j].name = name}}

\* The ids and the paths a caller looks a file up by.
LookupIDs == {"f1", "f2", "d1", "f9"}
LookupPaths == {"/a", "/b", "/x/b", "/y/x/b", "/x", "/x/a", "/w/b", "a", "x/b"}

\* GetFileDoc(c, fileID)
GetFileDocCall(p) ==
    /\ Free(p)
    /\ nops < MaxOps
    /\ \E fileID \in LookupIDs :
          LET r == GetFileDoc(db, fileID)
          IN Set(p, [IdleTh EXCEPT !.op = "GetFileDoc", !.arg = fileID,
                                   !.ret = r.err, !.newdoc = r.doc])
    /\ nops' = nops + 1
    /\ UNCHANGED <<fs, db, hist>>

\* GetFileDocFromPath(c, name): the returned document carries the parent it was found
\* under.
GetFileDocFromPathCall(p) ==
    /\ Free(p)
    /\ nops < MaxOps
    /\ \E name \in LookupPaths :
          LET parent == GetDirDocFromPath(db, PathDir(name))
              docs == FindFileDocs(db, parent.dir.id, PathBase(name))
              Fails(err) == Set(p, [IdleTh EXCEPT !.op = "GetFileDocFromPath",
                                                  !.arg = name, !.ret = err])
          IN IF ~PathIsAbs(name) THEN Fails(ErrNonAbsolutePath)
             ELSE IF parent.err # Nil THEN Fails(parent.err)
             ELSE IF docs = {} THEN Fails(ErrNotExist)
             ELSE \E fileDoc \in docs :
                      Set(p, [IdleTh EXCEPT !.op = "GetFileDocFromPath", !.arg = name,
                                            !.newdoc = fileDoc, !.parent = parent.dir])
    /\ nops' = nops + 1
    /\ UNCHANGED <<fs, db, hist>>

\* Patches of the name and of the parent, in a tree of directories.
TreePatches ==
    [name : {{}, {"b"}}, dirID : {{}} \cup {{i} : i \in DirIDs}, restorePath : {{}},
     exec : {{}}, tags : {{}}]

\* Mutant of PatchedParent: the cached parent of olddoc is always kept.
PatchedParentKeepsCache(d, olddoc, oldparent, newdoc) ==
    [err |-> Nil, dir |-> oldparent]

\* The parent ModifyFileMetadata gives newdoc: newdoc.Parent(c) when the patch changes
\* the parent id, the cached parent of olddoc otherwise.
PatchedParent(d, olddoc, oldparent, newdoc) ==
    IF newdoc.dirID # olddoc.dirID THEN getParentDir(d, NoDir, newdoc.dirID)
    ELSE [err |-> Nil, dir |-> oldparent]

\* The number of times a call of Parent(c) with that cache reads the store.
Lookups(parent) == IF parent = NoDir THEN 1 ELSE 0

\* The cached parent of a document after doc.Path(c): Path populates an empty cache
\* of a document that is not under the root.
ParentAfterPath(d, doc, parent) ==
    IF doc.dirID = RootDirID THEN parent ELSE getParentDir(d, parent, doc.dirID).dir

\* The head of ModifyFileMetadata in a tree of directories, down to the paths: the
\* caller passes a stored document without a cached parent, or the document its last
\* call returned, with the parent that call cached. th.nlookup counts the reads of
\* the directory newdoc.dirID from the store.
ModifyTreeCall(p) ==
    /\ Free(p)
    /\ nops < MaxOps
    /\ \E patch \in TreePatches :
       \E old \in {[doc |-> o, parent |-> NoDir] : o \in hist}
                  \cup {[doc |-> th[p].newdoc, parent |-> th[p].parent] :
                           x \in {y \in {1} : /\ th[p].ret = Nil
                                               /\ th[p].newdoc # NoDoc
                                               /\ th[p].op \in {"GetFileDocFromPath",
                                                                "ModifyFileMetadata"}}} :
          LET olddoc == old.doc
              newdoc == ModifiedDoc(olddoc, patch)
              changed == newdoc.dirID # olddoc.dirID
              parent == PatchedParent(db, olddoc, old.parent, newdoc)
              oldpath == Path(db, olddoc, old.parent)
              newpath == Path(db, newdoc, parent.dir)
              Call == [IdleTh EXCEPT !.op = "ModifyFileMetadata", !.olddoc = olddoc,
                                     !.oldparent = old.parent, !.patch = patch]
          IN IF parent.err # Nil
             THEN Set(p, [Call EXCEPT !.ret = parent.err, !.nlookup = 1])
             ELSE IF oldpath.err # Nil
             THEN Set(p, [Call EXCEPT
                      !.ret = oldpath.err,
                      !.nlookup = (IF changed THEN 1 ELSE 0)
                                  + (IF ~changed /\ olddoc.dirID # RootDirID
                                     THEN Lookups(old.parent) ELSE 0)])
             ELSE Set(p, [Call EXCEPT
                      !.pc = IF newpath.err # Nil THEN "idle"
                             ELSE IF newpath.path # oldpath.path THEN "mf_stat"
                             ELSE AfterRename(olddoc, newdoc),
                      !.ret = newpath.err,
                      !.newdoc = IF newpath.err # Nil THEN NoDoc ELSE newdoc,
                      !.parent = ParentAfterPath(db, newdoc, parent.dir),
                      !.oldpath = oldpath.path,
                      !.newpath = newpath.path,
                      !.nlookup = (IF changed THEN 1 ELSE 0)
                                  + (IF ~changed /\ olddoc.dirID # RootDirID
                                     THEN Lookups(old.parent) ELSE 0)
                                  + (IF newdoc.dirID # RootDirID
                                     THEN Lookups(parent.dir) ELSE 0)])
    /\ nops' = nops + 1
    /\ UNCHANGED <<fs, db, hist>>

\* The documents a caller asks the path of: those of the store, and new ones.
PathDocs ==
    hist \cup {NewFileDoc(name, dirID, 0, NoDigest, "text/plain", "text", Now, FALSE, <<>>) :
                   name \in Names, dirID \in DirIDs}

\* doc.Path(c), for a document with or without a cached parent.
PathCall(p) ==
    /\ Free(p)
    /\ nops < MaxOps
    /\ \E doc \in PathDocs : \E parent \in {NoDir, GetDirDoc(db, doc.dirID).dir} :
          LET r == Path(db, doc, parent)
          IN Set(p, [IdleTh EXCEPT
                 !.op = "Path", !.ret = r.err, !.olddoc = doc, !.newpath = r.path,
                 !.parent = IF doc.dirID = RootDirID THEN parent
                            ELSE getParentDir(db, parent, doc.dirID).dir])
    /\ nops' = nops + 1
    /\ UNCHANGED <<fs, db, hist>>

(* ----------------------------- DestroyFile ---------------------------- *)

\* DestroyFile(c, doc), down to doc.Path(c).
DestroyCall(p) ==
    /\ Free(p)
    /\ nops < MaxOps
    /\ \E doc \in hist :
          Set(p, [IdleTh EXCEPT
              !.pc = "ds_remove", !.op = "DestroyFile", !.olddoc = doc,
              !.oldpath = FileDocPath(doc)])
    /\ nops' = nops + 1
    /\ UNCHANGED <<fs, db, hist>>

\* Mutant of DestroyRemove: the error of Remove is not looked at.
DestroyRemoveIgnoresError(p) ==
    /\ th[p].pc = "ds_remove"
    /\ fs' = FsRemove(fs, th[p].oldpath)
    /\ Set(p, [th[p] EXCEPT !.pc = "ds_delete"])
    /\ UNCHANGED <<db, hist, nops>>

\* c.FS().Remove(path): on an error DestroyFile returns it.
DestroyRemove(p) ==
    /\ th[p].pc = "ds_remove"
    /\ IF FsExists(fs, th[p].oldpath)
       THEN /\ fs' = FsRemove(fs, th[p].oldpath)
            /\ Set(p, [th[p] EXCEPT !.pc = "ds_delete"])
       ELSE /\ fs' = fs
            /\ Set(p, [Returned(p, ErrNotExist) EXCEPT !.olddoc = th[p].olddoc])
    /\ UNCHANGED <<db, hist, nops>>

\* couchdb.DeleteDoc(c, doc), which asks for the current revision as UpdateDoc does.
DestroyDelete(p) ==
    /\ th[p].pc = "ds_delete"
    /\ IF UpdateOK(th[p].olddoc)
       THEN /\ db' = DbDelete(db, th[p].olddoc)
            /\ Set(p, [Returned(p, Nil) EXCEPT !.olddoc = th[p].olddoc])
       ELSE /\ db' = db
            /\ Set(p, [Returned(p, ErrCouchConflict) EXCEPT !.olddoc = th[p].olddoc])
    /\ UNCHANGED <<fs, hist, nops>>

(* ------------------- calls on a handle of the other mode --------------- *)

\* The thread after a call the mode of the handle refuses: th.mis is the call.
Refused(p, call) == [th[p] EXCEPT !.mis = call, !.ret = ErrInvalid]

\* Read on a handle of CreateFile: f.fc is not nil.
ReadOnWriter(p) ==
    /\ th[p].pc = "open"
    /\ Set(p, Refused(p, "Read"))
    /\ UNCHANGED <<fs, db, hist, nops>>

\* Seek on a handle of CreateFile: f.fc is not nil.
SeekOnWriter(p) ==
    /\ th[p].pc = "open"
    /\ Set(p, Refused(p, "Seek"))
    /\ UNCHANGED <<fs, db, hist, nops>>

\* Mutant of WriteOnReader: the bytes go to the file the handle is on.
WriteOnReaderUnchecked(p) ==
    /\ th[p].pc = "rd_open"
    /\ \E chunk \in Chunks :
          /\ fs' = IF FsExists(fs, th[p].newpath)
                   THEN [fs EXCEPT ![th[p].newpath].data = @ \o chunk]
                   ELSE fs
          /\ Set(p, [th[p] EXCEPT !.mis = "Write", !.ret = Nil])
    /\ UNCHANGED <<db, hist, nops>>

\* Write on a handle of Open: f.fc is nil.
WriteOnReader(p) ==
    /\ th[p].pc = "rd_open"
    /\ \E chunk \in Chunks :
          /\ fs' = fs
          /\ Set(p, Refused(p, "Write"))
    /\ UNCHANGED <<db, hist, nops>>

(* ---------------------------------------------------------------------- *)

Next ==
    \E p \in Procs :
        \/ CreateFileCall(p)
        \/ CreateFileStat(p)
        \/ CreateFileRename(p)
        \/ CreateFileCreate(p)
        \/ Write(p)
        \/ CloseUnderlying(p)
        \/ CloseCommit(p)
        \/ CloseDefer(p)
        \/ ModifyCall(p)
        \/ ModifyStat(p)
        \/ ModifyRename(p)
        \/ ModifyChmod(p)
        \/ ModifyCommit(p)

Spec == Init /\ [][Next]_vars

\* The threads only replace the content of existing files.
NextReplace ==
    \E p \in Procs :
        \/ ReplaceCall(p)
        \/ CreateFileStat(p)
        \/ CreateFileRename(p)
        \/ CreateFileCreate(p)
        \/ Write(p)
        \/ CloseUnderlying(p)
        \/ CloseCommit(p)
        \/ CloseDefer(p)

SpecReplace == Init /\ [][NextReplace]_vars

\* The threads trash and restore files, and move them with ModifyFileMetadata.
NextTrash ==
    \E p \in Procs :
        \/ TrashCall(p)
        \/ RestoreCall(p)
        \/ TryStat(p)
        \/ TryRename(p)
        \/ TryCommit(p)
        \/ MoveCall(p)
        \/ ModifyStat(p)
        \/ ModifyRename(p)
        \/ ModifyCommit(p)

SpecTrash == InitTrash /\ [][NextTrash]_vars

\* The threads create new files and read files.
NextRoundTrip ==
    \E p \in Procs :
        \/ CreateCall(p)
        \/ CreateFileCreate(p)
        \/ Write(p)
        \/ CloseUnderlying(p)
        \/ CloseCommit(p)
        \/ CloseDefer(p)
        \/ Open(p)
        \/ Read(p)

SpecRoundTrip == Init /\ [][NextRoundTrip]_vars

\* The threads replace the content of files and read files.
NextRead ==
    \E p \in Procs :
        \/ ReplaceCall(p)
        \/ CreateFileStat(p)
        \/ CreateFileRename(p)
        \/ CreateFileCreate(p)
        \/ Write(p)
        \/ CloseUnderlying(p)
        \/ CloseCommit(p)
        \/ CloseDefer(p)
        \/ Open(p)
        \/ Read(p)

SpecRead == Init /\ [][NextRead]_vars

\* A file of the root whose name begins like the name of the trash directory.
PrefixDoc ==
    [InitDoc EXCEPT !.id = "f2", !.name = ".cozy_trash_b", !.md5 = MD5Digest(<<3>>)]

\* The file "/a", and the file "/.cozy_trash_b" beside it in the root.
InitPrefix ==
    /\ fs = [q \in {"/a", FileDocPath(PrefixDoc)} |->
                [fid |-> "", data |-> IF q = "/a" THEN <<2>> ELSE <<3>>, mode |-> "0644"]]
    /\ db = [i \in {"f1", "f2"} |-> IF i = "f1" THEN InitDoc ELSE PrefixDoc]
    /\ hist = {InitDoc, PrefixDoc}
    /\ th = [p \in Procs |-> IdleTh]
    /\ nops = 0

\* The threads trash and restore these files.
NextPrefix ==
    \E p \in Procs :
        \/ TrashCall(p)
        \/ RestoreCall(p)
        \/ TryStat(p)
        \/ TryRename(p)
        \/ TryCommit(p)

SpecPrefix == InitPrefix /\ [][NextPrefix]_vars

\* The trashed file number n of a trash that holds a file under every name
\* tryOrUseSuffix tries for "a" there.
SaturatingDoc(n) ==
    [InitDoc EXCEPT !.id = "f" \o ToString(n + 2), !.rev = 2,
                    !.name = IF n = 0 THEN "a" ELSE conflictFormat("a", n),
                    !.dirID = TrashDirID, !.restorePath = "/",
                    !.md5 = MD5Digest(<<n + 3>>)]

\* The file "/a" and a trash with a file under each of the MaxTries names; hist has
\* the documents these files had before TrashFile, and a revision of the last one
\* that is out of date though the file was in the trash already.
InitNamer ==
    /\ fs = [q \in {"/a"} \cup {FileDocPath(SaturatingDoc(n)) : n \in 0..(MaxTries - 1)} |->
                [fid |-> "",
                 data |-> IF q = "/a" THEN <<2>>
                          ELSE <<3 + CHOOSE n \in 0..(MaxTries - 1) :
                                        FileDocPath(SaturatingDoc(n)) = q>>,
                 mode |-> "0644"]]
    /\ db = [i \in {"f1"} \cup {SaturatingDoc(n).id : n \in 0..(MaxTries - 1)} |->
                IF i = "f1" THEN InitDoc
                ELSE SaturatingDoc(CHOOSE n \in 0..(MaxTries - 1) : SaturatingDoc(n).id = i)]
    /\ hist = {InitDoc} \cup {SaturatingDoc(n) : n \in 0..(MaxTries - 1)}
                 \cup {[SaturatingDoc(MaxTries - 1) EXCEPT !.rev = 1]}
    /\ th = [p \in Procs |-> IdleTh]
    /\ nops = 0

\* The threads trash and restore the files of the saturated trash.
NextNamer ==
    \E p \in Procs :
        \/ TrashCall(p)
        \/ RestoreCall(p)
        \/ TryStat(p)
        \/ TryRename(p)
        \/ TryCommit(p)

SpecNamer == InitNamer /\ [][NextNamer]_vars

\* The threads resolve paths in a tree of directories.
NextTree ==
    \E p \in Procs :
        \/ PathCall(p)
        \/ GetFileDocCall(p)
        \/ GetFileDocFromPathCall(p)
        \/ ModifyTreeCall(p)
        \/ ModifyStat(p)
        \/ ModifyRename(p)
        \/ ModifyCommit(p)

SpecTree == InitTree /\ [][NextTree]_vars

\* The threads serve requests of the data API.
NextData ==
    \E p \in Procs :
        \/ DeleteDocReq(p)
        \/ UpdateDocReq(p)
        \/ GetDocReq(p)
        \/ CreateDocReq(p)
        \/ AllDocsReq(p)
        \/ DefineIndexReq(p)
        \/ FindDocumentsReq(p)
        \/ ChangesFeedReq(p)
        \/ DbStatusReq(p)
        \/ GetDesignDocReq(p)
        \/ GetLocalDocReq(p)
        \/ SetLocalDocReq(p)
        \/ BulkGetReq(p)
        \/ FullCommitReq(p)

SpecData == InitData /\ [][NextData]_vars

\* The threads destroy files, and move files with ModifyFileMetadata.
NextDestroy ==
    \E p \in Procs :
        \/ DestroyCall(p)
        \/ DestroyRemove(p)
        \/ DestroyDelete(p)
        \/ MoveCall(p)
        \/ ModifyStat(p)
        \/ ModifyRename(p)
        \/ ModifyCommit(p)

SpecDestroy == InitTrash /\ [][NextDestroy]_vars

\* The threads create and replace files, and use their handles after Close too.
NextReclose ==
    \E p \in Procs :
        \/ CreateFileCall(p)
        \/ CreateFileStat(p)
        \/ CreateFileRename(p)
        \/ CreateFileCreate(p)
        \/ Write(p)
        \/ CloseUnderlying(p)
        \/ CloseCommit(p)
        \/ CloseDefer(p)
        \/ WriteAfterClose(p)
        \/ CloseAgain(p)

SpecReclose == Init /\ [][NextReclose]_vars

\* The threads patch the metadata of a file that has tags and references.
NextPatch ==
    \E p \in Procs :
        \/ PatchCall(p)
        \/ ModifyStat(p)
        \/ ModifyRename(p)
        \/ ModifyChmod(p)
        \/ ModifyCommit(p)

SpecPatch == InitPatch /\ [][NextPatch]_vars

\* The threads create new files and read files, and call their handles in both modes.
NextModes ==
    \E p \in Procs :
        \/ CreateCall(p)
        \/ CreateFileCreate(p)
        \/ Write(p)
        \/ ReadOnWriter(p)
        \/ SeekOnWriter(p)
        \/ CloseUnderlying(p)
        \/ CloseCommit(p)
        \/ CloseDefer(p)
        \/ Open(p)
        \/ Read(p)
        \/ WriteOnReader(p)

SpecModes == Init /\ [][NextModes]_vars

(* ============================== claims ================================ *)

\* The step of thread p that validates and commits in Close.
CommitStep(p) == th[p].pc = "cl_commit" /\ th'[p].pc = "cl_defer"

\* The step of thread p that runs the deferred cleanup, with which Close returns.
DeferStep(p) == th[p].pc = "cl_defer" /\ th'[p].pc = "closed"

\* The step of thread p that performs the exclusive create of CreateFile.
CreateStep(p) == th[p].pc = "cf_create" /\ th'[p].pc # "cf_create"

\* The errors of the final metadata commit.
CommitErrors == {ErrCouchConflict, ErrCouchFailure}

\* C1: whenever Close of a write handle returns no error, the committed document
\* records as size the number of bytes Write accepted and as digest the digest of
\* those bytes, and the content entry at the document's path holds those bytes.
C1_CloseCommitsWhatWasWritten ==
    [][\A p \in Procs :
          (DeferStep(p) /\ th'[p].ret = Nil) =>
              LET id == th[p].newdoc.id
              IN /\ id \in DOMAIN db'
                 /\ db'[id].size = th[p].w
                 /\ db'[id].md5 = MD5Digest(th[p].hash)
                 /\ FileDocPath(db'[id]) \in DOMAIN fs'
                 /\ fs'[FileDocPath(db'[id])].data = th[p].hash]_vars

\* C2: once a Write on a handle returned an error, the Close that follows commits
\* nothing to the metadata store and returns a non-nil error.
C2_WriteErrorSurfacesOnClose ==
    [][\A p \in Procs :
          th[p].err # Nil =>
              /\ CommitStep(p) => db' = db
              /\ DeferStep(p) => th'[p].ret # Nil]_vars

\* C3: in Close, once the underlying close succeeded, a declared digest that differs
\* from the digest of the bytes written gives ErrInvalidHash; otherwise a declared
\* (non-negative) size that differs from the number of bytes written gives
\* ErrContentLengthMismatch; either way the metadata store is left as it was, and the
\* error is what Close returns.
C3_ValidationErrors ==
    [][\A p \in Procs :
          /\ CommitStep(p) =>
                LET declared == th[p].newdoc
                    badHash == declared.md5 # NoDigest
                               /\ declared.md5 # MD5Digest(th[p].hash)
                    badSize == declared.size >= 0 /\ declared.size # th[p].w
                IN /\ badHash => (th'[p].cerr = ErrInvalidHash /\ db' = db)
                   /\ (~badHash /\ badSize) =>
                         (th'[p].cerr = ErrContentLengthMismatch /\ db' = db)
          /\ (DeferStep(p) /\ th[p].cerr \in {ErrInvalidHash, ErrContentLengthMismatch}) =>
                th'[p].ret = th[p].cerr]_vars

\* C3 witness: one Close has failed on the digest and another on the length.
C3_Witness ==
    \E p, q \in Procs :
        /\ th[p].pc = "closed" /\ th[p].ret = ErrInvalidHash
        /\ th[q].pc = "closed" /\ th[q].ret = ErrContentLengthMismatch

\* C4: when Close of a pure creation (no old document) returns an error, or a write
\* error was latched on the handle, no content entry is at the target path when Close
\* returns.
C4_FailedCreationLeavesNoContent ==
    [][\A p \in Procs :
          (DeferStep(p) /\ th[p].olddoc = NoDoc /\ (th[p].cerr # Nil \/ th[p].err # Nil)) =>
              ~FsExists(fs', th[p].newpath)]_vars

\* C4 witness: a creation of "/b" whose Write failed has been closed, and "/b" is free.
C4_Witness ==
    \E p \in Procs :
        /\ th[p].pc = "closed" /\ th[p].olddoc = NoDoc /\ th[p].err # Nil
        /\ th[p].newpath = "/b" /\ ~FsExists(fs, "/b")

\* C5 (as claimed): when the final metadata commit of Close fails, the new content
\* stays in the content store at the target path.
C5_CommitFailureLeavesNewContent ==
    [][\A p \in Procs :
          (DeferStep(p) /\ th[p].cerr \in CommitErrors /\ FsExists(fs, th[p].newpath)) =>
              /\ FsExists(fs', th[p].newpath)
              /\ fs'[th[p].newpath] = fs[th[p].newpath]]_vars

\* C5 (amended): when the final metadata commit of Close fails, the cleanup takes the
\* new content away from the target path: the entry at the target path of a pure
\* creation is deleted, and in a replace the backup entry, when it is still there, is
\* moved back over the target path.
C5_CommitFailureRollsBack ==
    [][\A p \in Procs :
          (DeferStep(p) /\ th[p].cerr \in CommitErrors) =>
              IF th[p].olddoc = NoDoc
              THEN ~FsExists(fs', th[p].newpath)
              ELSE FsExists(fs, th[p].bakpath) =>
                      /\ fs'[th[p].newpath] = fs[th[p].bakpath]
                      /\ ~FsExists(fs', th[p].bakpath)]_vars

\* C5 witness: a replace whose commit met a conflict has been closed, and the target
\* path holds the old content again.
C5_Witness ==
    \E p \in Procs :
        /\ th[p].pc = "closed" /\ th[p].ret = ErrCouchConflict /\ th[p].olddoc # NoDoc
        /\ ~FsExists(fs, th[p].bakpath)
        /\ FsExists(fs, th[p].newpath) /\ fs[th[p].newpath].data = <<2>>

\* C6: in a replace, when Close returns an error or a write error was latched, the
\* Close has committed nothing to the metadata store and, when it returns, the backup
\* has been moved back: the target path holds the old content again.
C6_FailedReplaceRestores ==
    [][\A p \in Procs :
          th[p].olddoc # NoDoc =>
              /\ (CommitStep(p) /\ th[p].err # Nil) => db' = db
              /\ (DeferStep(p) /\ (th[p].err # Nil \/ th[p].cerr # Nil)) =>
                    /\ FsExists(fs, th[p].bakpath)
                    /\ fs'[th[p].newpath] = fs[th[p].bakpath]
                    /\ ~FsExists(fs', th[p].bakpath)]_vars

\* The step of thread p that calls couchdb.UpdateDoc, in ModifyFileMetadata or in Close.
UpdateStep(p) ==
    \/ th[p].pc = "mf_commit" /\ th'[p].pc # "mf_commit"
    \/ CommitStep(p) /\ th[p].olddoc # NoDoc /\ th'[p].cerr \notin {ErrInvalidHash, ErrContentLengthMismatch}

\* The error with which the operation of thread p goes on after its UpdateDoc.
UpdateError(p) == IF th[p].pc = "mf_commit" THEN th'[p].ret ELSE th'[p].cerr

\* C7: two CreateFile calls without an old document race on one path: the exclusive
\* create that finds the path free takes it and returns a handle, the one that finds
\* the other's entry there returns os.ErrExist and no handle and leaves the entry
\* untouched, so exactly one of the two succeeds.
C7_ExclusiveCreate ==
    [][\A p \in Procs :
          (CreateStep(p) /\ th[p].olddoc = NoDoc) =>
              IF FsExists(fs, th[p].newpath)
              THEN th'[p].pc = "idle" /\ th'[p].ret = ErrExist /\ fs' = fs
              ELSE /\ th'[p].pc = "open" /\ th'[p].ret = Nil
                   /\ fs'[th[p].newpath].fid = p
                   /\ \A q \in DOMAIN fs : fs'[q] = fs[q]]_vars

\* C7 witness: one thread holds the handle of a creation of "/b", whose entry is at
\* "/b", and the other's CreateFile for "/b" has returned os.ErrExist.
C7_Witness ==
    \E p, q \in Procs :
        /\ th[p].pc = "open" /\ th[p].olddoc = NoDoc /\ th[p].newpath = "/b"
        /\ FsExists(fs, "/b") /\ fs["/b"].fid = p
        /\ th[q].pc = "idle" /\ th[q].op = "CreateFile" /\ th[q].ret = ErrExist
        /\ th[q].newpath = "/b" /\ th[q].bakpath = ""

\* C8: a metadata commit made with a revision (that of the old document the caller
\* passed) that is not the store's current one fails with the store's conflict error
\* and changes nothing, and the operation goes on to its return without another
\* attempt; one made with the current revision succeeds and the stored revision
\* changes.
C8_StaleRevisionConflicts ==
    [][\A p \in Procs :
          UpdateStep(p) =>
              LET id == th[p].olddoc.id
              IN IF id \in DOMAIN db /\ db[id].rev = th[p].olddoc.rev
                 THEN /\ UpdateError(p) = Nil
                      /\ db'[id].rev # db[id].rev
                 ELSE /\ UpdateError(p) = ErrCouchConflict
                      /\ db' = db]_vars

\* C8 witness: a ModifyFileMetadata made with revision 1 has returned the conflict
\* error, the store being at revision 2 after another commit.
C8_Witness ==
    \E p \in Procs :
        /\ th[p].pc = "idle" /\ th[p].op = "ModifyFileMetadata"
        /\ th[p].ret = ErrCouchConflict /\ th[p].newdoc.rev = 1
        /\ db["f1"].rev = 2

\* C9: with threads that only replace (CreateFile with an old document, Write, Close),
\* once every handle is closed the content at the path of every stored document has
\* the size and the digest the document records, and no two committed revisions
\* stem from the same revision.
C9_ReplaceKeepsStoresConsistent ==
    (\A p \in Procs : Free(p)) =>
        /\ \A id \in DOMAIN db :
              /\ FsExists(fs, FileDocPath(db[id]))
              /\ Len(fs[FileDocPath(db[id])].data) = db[id].size
              /\ MD5Digest(fs[FileDocPath(db[id])].data) = db[id].md5
        /\ \A d, e \in hist : (d.id = e.id /\ d.rev = e.rev) => d = e

\* The step of thread p that calls Rename inside safeRenameFile.
SafeRenameStep(p) ==
    \/ th[p].pc = "cf_rename" /\ th'[p].pc # "cf_rename"
    \/ th[p].pc = "mf_rename" /\ th'[p].pc # "mf_rename"

\* The destination of the safeRenameFile thread p is in.
SafeRenameTarget(p) == IF th[p].pc = "cf_rename" THEN th[p].bakpath ELSE th[p].newpath

\* C10: a move made through safeRenameFile never replaces an existing content entry:
\* an entry that is at the destination when the Rename of safeRenameFile runs is still
\* there, unchanged, after it, also when other threads work on the same paths.
C10_SafeRenameNeverReplaces ==
    [][\A p \in Procs :
          (SafeRenameStep(p) /\ FsExists(fs, SafeRenameTarget(p))) =>
              /\ FsExists(fs', SafeRenameTarget(p))
              /\ fs'[SafeRenameTarget(p)] = fs[SafeRenameTarget(p)]]_vars

\* C11: at all times, so after every successful operation whatever ran beside it, no
\* two distinct file documents of the metadata store have the same parent directory
\* and the same name.
C11_SiblingNamesUnique ==
    \A i, j \in DOMAIN db :
        (i # j /\ db[i].dirID = db[j].dirID) => db[i].name # db[j].name

\* C12: once the operations have returned, every file document of the metadata store
\* has a content entry at its resolved path, the path of its parent joined with its
\* name.
C12_EveryDocumentHasContent ==
    (\A p \in Procs : Free(p)) =>
        \A id \in DOMAIN db : FsExists(fs, FileDocPath(db[id]))

\* C13: at all times, so after every successful CreateFile/Close, ModifyFileMetadata,
\* TrashFile or RestoreFile, every file document of the metadata store that has a
\* non-empty restorePath resolves to a path under the trash directory.
C13_RestorePathOnlyInTrash ==
    \A id \in DOMAIN db :
        db[id].restorePath # "" => HasPrefix(FileDocPath(db[id]), TrashDirName \o "/")

\* The step with which the TrashFile or RestoreFile of thread p returns.
TrashReturn(p) == th[p].op = "TrashFile" /\ th[p].pc # "idle" /\ th'[p].pc = "idle"
RestoreReturn(p) == th[p].op = "RestoreFile" /\ th[p].pc # "idle" /\ th'[p].pc = "idle"

\* C14: when TrashFile of a file that is not in the trash returns no error, the
\* document it returns is the stored one, its parent is the trash directory, its
\* restorePath is the directory of the path the file had, no other document of the
\* trash directory has its name, and the content of the file is at its new path.
C14_TrashMovesToTrash ==
    [][\A p \in Procs :
          (TrashReturn(p) /\ th'[p].ret = Nil) =>
              LET old == th[p].olddoc
                  new == th'[p].newdoc
              IN /\ db'[old.id] = new
                 /\ new.dirID = TrashDirID
                 /\ new.restorePath = PathDir(FileDocPath(old))
                 /\ \A i \in DOMAIN db' :
                       (i # new.id /\ db'[i].dirID = TrashDirID) => db'[i].name # new.name
                 /\ FsExists(fs', FileDocPath(new))
                 /\ MD5Digest(fs'[FileDocPath(new)].data) = old.md5]_vars

\* The step with which thread p calls TrashFile or RestoreFile on th'[p].olddoc.
TrashCallStep(p) ==
    Free(p) /\ th'[p] # th[p] /\ th'[p].op = "TrashFile" /\ nops' = nops + 1
RestoreCallStep(p) ==
    Free(p) /\ th'[p] # th[p] /\ th'[p].op = "RestoreFile" /\ nops' = nops + 1

\* The revision of doc's file before doc, when it was outside the trash and doc is
\* what TrashFile made of it; NoDoc when there is none.
BeforeTrash(doc) ==
    LET prev == {o \in hist : /\ o.id = doc.id /\ o.rev = doc.rev - 1
                               /\ ~InTrash(FileDocPath(o))
                               /\ doc.dirID = TrashDirID
                               /\ doc.restorePath = PathDir(FileDocPath(o))}
    IN IF prev = {} THEN NoDoc ELSE CHOOSE o \in prev : TRUE

\* C15: TrashFile called with a document that a successful TrashFile returned (its
\* parent is the trash directory and its restorePath is set) returns ErrFileInTrash
\* at once, with no document, and changes neither the content store nor the
\* metadata store.
C15_TrashTwiceFails ==
    [][\A p \in Procs :
          (TrashCallStep(p) /\ BeforeTrash(th'[p].olddoc) # NoDoc) =>
              /\ th'[p].pc = "idle"
              /\ th'[p].ret = ErrFileInTrash
              /\ th'[p].newdoc = NoDoc
              /\ fs' = fs /\ db' = db]_vars

\* C15 witness: TrashFile moved f1 to the trash at revision 4, and a TrashFile called
\* with that document has returned ErrFileInTrash.
C15_Witness ==
    \E p \in Procs :
        /\ th[p].pc = "idle" /\ th[p].op = "TrashFile" /\ th[p].ret = ErrFileInTrash
        /\ th[p].olddoc = db["f1"] /\ db["f1"].rev = 4 /\ db["f1"].dirID = TrashDirID
        /\ FsExists(fs, FileDocPath(db["f1"]))

\* C16: RestoreFile called with a document that a successful TrashFile returned
\* tries the name the file had before it was trashed in the directory it was in, and
\* after each name it finds occupied the next name with a counter in parentheses;
\* when it returns no error the stored document is in that directory, under the
\* original name when no name was found occupied and under the name with the
\* counter otherwise, and its restorePath is empty.
C16_RestoreAfterTrash ==
    [][\A p \in Procs :
          (th[p].op = "RestoreFile" /\ BeforeTrash(th[p].olddoc) # NoDoc) =>
              LET orig == BeforeTrash(th[p].olddoc)
                  new == th'[p].newdoc
              IN /\ (th[p].pc = "ts_stat" /\ th'[p] # th[p]) =>
                       IF FsExists(fs, th[p].newpath)
                       THEN /\ th'[p].nconflict = th[p].nconflict + 1
                            /\ th'[p].newdoc.name =
                                   restoreFormat(orig.name, th'[p].nconflict)
                       ELSE /\ th'[p].pc = "ts_rename"
                            /\ th'[p].newdoc = th[p].newdoc
                 /\ (RestoreReturn(p) /\ th'[p].ret = Nil) =>
                       /\ db'[orig.id] = new
                       /\ new.dirID = orig.dirID
                       /\ new.restorePath = ""
                       /\ new.name = IF th[p].nconflict = 0 THEN orig.name
                                     ELSE restoreFormat(orig.name, th[p].nconflict)]_vars

OpenStep(p) == Free(p) /\ th'[p] # th[p] /\ th'[p].op = "Open" /\ nops' = nops + 1

\* The step with which thread p reads the file it opened to the end.
ReadStep(p) == th[p].pc = "rd_open" /\ th'[p].op = "Read"

\* Thread p has created doc as a new file: CreateFile without old document, Writes
\* and Close on its handle all returned no error.
CreatedBy(p, doc) ==
    /\ th[p].pc = "closed" /\ th[p].olddoc = NoDoc
    /\ th[p].ret = Nil /\ th[p].err = Nil
    /\ th[p].newdoc = doc

Replacing(p, doc) ==
    /\ th[p].pc \in {"cf_stat", "cf_rename", "cf_create", "open", "cl_commit", "cl_defer"}
    /\ th[p].olddoc # NoDoc /\ th[p].olddoc.id = doc.id

\* C19: while a thread replaces the content of a file, Open called by another thread
\* with the stored document of that file returns a handle, and the file it opens has
\* no writer any more: the reader does not find the content missing, nor content
\* that is still being written.
C19_ReplaceIsAtomicForReaders ==
    [][\A p, q \in Procs :
          (/\ OpenStep(q)
           /\ th'[q].olddoc.id \in DOMAIN db /\ db[th'[q].olddoc.id] = th'[q].olddoc
           /\ Replacing(p, th'[q].olddoc)) =>
              /\ th'[q].pc = "rd_open"
              /\ th'[q].fid = ""]_vars

\* C20: when the rename of the existing content to the backup path finds its source
\* gone, CreateFile returns ErrConflict, not os.ErrNotExist, returns no handle, and
\* leaves both stores as they are.
C20_LostBackupRaceIsConflict ==
    [][\A p \in Procs :
          (th[p].pc = "cf_rename" /\ th'[p] # th[p] /\ ~FsExists(fs, th[p].newpath)) =>
              /\ th'[p].pc = "idle"
              /\ th'[p].ret = ErrConflict
              /\ th'[p].fid = ""
              /\ fs' = fs /\ db' = db]_vars

\* C20 witness: a CreateFile with an old document has returned ErrConflict while the
\* content of the file is at the backup path, where another writer moved it.
C20_Witness ==
    \E p \in Procs :
        /\ th[p].pc = "idle" /\ th[p].op = "CreateFile" /\ th[p].ret = ErrConflict
        /\ th[p].bakpath # "" /\ FsExists(fs, th[p].bakpath)
        /\ ~FsExists(fs, th[p].newpath)

\* The step in which thread p makes a call that the mode of its handle refuses.
RefusedStep(p) == th'[p].mis # th[p].mis /\ th'[p].mis # ""

\* C21: Read and Seek on a handle of CreateFile, and Write on a handle of Open, each
\* return os.ErrInvalid and change nothing: not the bytes counted, not the bytes
\* hashed, not the latched error, not the position of the handle, and no content
\* entry and no document.
C21_WrongModeCallsFail ==
    [][\A p \in Procs :
          RefusedStep(p) =>
              /\ th'[p].ret = ErrInvalid
              /\ th'[p].mis \in {"Read", "Seek"} <=> th[p].pc = "open"
              /\ th'[p].mis = "Write" <=> th[p].pc = "rd_open"
              /\ th'[p] = [th[p] EXCEPT !.mis = th'[p].mis, !.ret = ErrInvalid]
              /\ fs' = fs
              /\ db' = db]_vars

\* A writing handle that counted bytes and refused a Read or a Seek, beside a reading
\* handle that refused a Write.
C21_Witness ==
    \E p, q \in Procs :
        /\ th[p].pc = "open" /\ th[p].w > 0 /\ th[p].mis \in {"Read", "Seek"}
        /\ th[p].ret = ErrInvalid
        /\ th[q].pc = "rd_open" /\ th[q].mis = "Write" /\ th[q].ret = ErrInvalid

\* The file of document doc has content somewhere: the files of this specification
\* hold different bytes each, so the digest tells whose content an entry is.
ContentOf(doc) == {q \in DOMAIN fs : MD5Digest(fs[q].data) = doc.md5}

\* The documents DestroyFile has deleted: stored once, in the store no more.
Deleted == {doc \in hist : doc.id \notin DOMAIN db}

\* The step of thread p that calls Remove in DestroyFile, and the one that calls
\* DeleteDoc.
DestroyRemoveStep(p) == th[p].pc = "ds_remove" /\ th'[p].pc # "ds_remove"
DestroyDeleteStep(p) == th[p].pc = "ds_delete" /\ th'[p].pc # "ds_delete"

MoveStep(p) == th[p].pc = "mf_rename" /\ th'[p].pc \notin {"mf_rename", "idle"}
MovedReturn(p) ==
    /\ th[p].pc = "mf_commit" /\ th'[p].pc = "idle" /\ th'[p].ret = Nil
    /\ th[p].newpath # th[p].oldpath

\* C23: a ModifyFileMetadata whose patch changes the name or the parent moves the
\* content entry from the old path to the new one, so that nothing is left at the old
\* path, and when it returns without error the stored document resolves to the new
\* path and there is content at that path.
C23_MoveMovesContent ==
    [][\A p \in Procs :
          /\ MoveStep(p) =>
                /\ ~FsExists(fs', th[p].oldpath)
                /\ FsExists(fs', th[p].newpath)
                /\ fs'[th[p].newpath] = fs[th[p].oldpath]
          /\ MovedReturn(p) =>
                /\ FileDocPath(db'[th[p].olddoc.id]) = th[p].newpath
                /\ FsExists(fs', th[p].newpath)]_vars

\* The step in which thread p calls ModifyFileMetadata and builds its new document.
ModifyCallStep(p) ==
    Free(p) /\ th'[p] # th[p] /\ th'[p].op = "ModifyFileMetadata" /\ nops' = nops + 1

\* Document new has the id, the revision and the creation time of document old.
SameIdentity(new, old) ==
    new.id = old.id /\ new.rev = old.rev /\ new.createdAt = old.createdAt

\* C24: the id and the creation time of a file never change. CreateFile with an old
\* document gives the new document the id, the revision and the creation time of the
\* old one before it returns its handle, ModifyFileMetadata gives them to the document
\* it builds, for every patch, and that is the document both hand to the store; all
\* the revisions the store has held of one id carry one creation time.
C24_IdentityAndCreationTimeKept ==
    /\ [](\A d, e \in hist : d.id = e.id => d.createdAt = e.createdAt)
    /\ [][\A p \in Procs :
            /\ (CreateStep(p) /\ th'[p].pc = "open" /\ th[p].olddoc # NoDoc) =>
                   SameIdentity(th'[p].newdoc, th[p].olddoc)
            /\ ModifyCallStep(p) => SameIdentity(th'[p].newdoc, th'[p].olddoc)
            /\ (UpdateStep(p) /\ db' # db) =>
                   /\ SameIdentity(th[p].newdoc, th[p].olddoc)
                   /\ db'[th[p].olddoc.id].createdAt = th[p].olddoc.createdAt]_vars

\* A replace through CreateFile, called with a new document stamped Now, committed a
\* document with the creation time of the old one, and a ModifyFileMetadata after it
\* committed the next revision with the same creation time.
C24_Witness ==
    \E p, q \in Procs :
        /\ th[p].pc = "closed" /\ th[p].olddoc = InitDoc /\ th[p].ret = Nil
        /\ th[p].newdoc.createdAt = Earlier /\ th[p].newdoc.rev = 2
        /\ th[q].pc = "idle" /\ th[q].op = "ModifyFileMetadata" /\ th[q].ret = Nil
        /\ th[q].newdoc.id = "f1" /\ th[q].newdoc.rev = 3
        /\ db["f1"] = th[q].newdoc /\ db["f1"].createdAt = Earlier

\* The step in which a ModifyFileMetadata of thread p that has moved the content
\* returns the error of its Chmod or of its UpdateDoc.
FailedAfterMove(p) ==
    /\ th[p].pc \in {"mf_chmod", "mf_commit"} /\ th'[p].pc = "idle" /\ th'[p].ret # Nil
    /\ th[p].newpath # th[p].oldpath

\* C25: ModifyFileMetadata does not roll back. When its rename succeeded and Chmod or
\* UpdateDoc fails after it, the call returns that error and undoes nothing: the
\* failing step leaves every content entry where the rename put it and the stored
\* documents as they are, so that the content stays at the new path while the stored
\* document keeps the name and the parent it had.
C25_NoRollbackAfterMove ==
    [][\A p \in Procs :
          FailedAfterMove(p) =>
              /\ th'[p].ret = IF th[p].pc = "mf_chmod" THEN ErrNotExist ELSE ErrCouchConflict
              /\ fs' = fs
              /\ db' = db
              /\ hist' = hist]_vars

\* ModifyFileMetadata returned the conflict of UpdateDoc after its rename: the content
\* is at the new path, nothing is at the old path, the stored document has the old
\* name.
C25_Witness ==
    \E p \in Procs :
        /\ th[p].pc = "idle" /\ th[p].op = "ModifyFileMetadata"
        /\ th[p].ret = ErrCouchConflict
        /\ th[p].newpath = "/b" /\ FsExists(fs, "/b") /\ ~FsExists(fs, "/a")
        /\ db["f1"].name = "a" /\ db["f1"].dirID = RootDirID

\* C26: the backup entry of a replace is transient: when Close of a handle that
\* CreateFile returned for a replace returns, with or without error, there is no
\* content entry at the backup path of that handle.
C26_BackupGoneAfterClose ==
    [][\A p \in Procs :
          (DeferStep(p) /\ th[p].olddoc # NoDoc) => ~FsExists(fs', th[p].bakpath)]_vars

\* Close of a replace returned nil after it removed the backup that was there, and
\* Close of another replace returned an error after it moved its backup back.
C26_Witness ==
    \E p, q \in Procs :
        /\ th[p].pc = "closed" /\ th[p].olddoc # NoDoc /\ th[p].ret = Nil
        /\ th[p].err = Nil /\ ~FsExists(fs, th[p].bakpath)
        /\ th[q].pc = "closed" /\ th[q].olddoc # NoDoc /\ th[q].ret # Nil
        /\ ~FsExists(fs, th[q].bakpath) /\ FsExists(fs, th[q].newpath)
        /\ fs[th[q].newpath].data = <<1, 1>>

\* The step with which CreateFile of thread p returns an error and no handle.
CreateFileFails(p) ==
    /\ th[p].pc \in {"cf_stat", "cf_rename", "cf_create"}
    /\ th'[p].pc = "idle" /\ th'[p].ret # Nil

\* C27: when CreateFile returns an error, at the backup rename or at the exclusive
\* create, it leaves the content store as it was before the call: the failing step
\* changes no entry, and the old content of a replace is not left behind at the
\* backup path.
C27_FailedCreateFileLeavesContent ==
    [][\A p \in Procs :
          CreateFileFails(p) =>
              /\ fs' = fs
              /\ (th[p].pc = "cf_create" /\ th[p].olddoc # NoDoc) =>
                     ~FsExists(fs', th[p].bakpath)]_vars

\* C28: a closed handle is at its end. After a Close that committed the document, a
\* further Close on the same handle, alone or after a Write, changes no content
\* entry and no document.
C28_ClosedIsTerminal ==
    [][\A p \in Procs :
          ((Committed(p) \/ th[p].again) /\ th'[p] # th[p] /\ th'[p].pc # "cf_stat"
              /\ th'[p].pc # "cf_create") =>
              fs' = fs /\ db' = db]_vars

\* The step of thread p that closes the underlying file in Close.
UnderlyingStep(p) == th[p].pc \in {"open", "closed"} /\ th'[p].pc \in {"cl_commit", "cl_defer"}

\* Thread p is inside Close.
InClose(p) == th[p].pc \in {"cl_commit", "cl_defer"} \/ UnderlyingStep(p)

\* C29: inside Close of a write handle the underlying file is closed first, then the
\* content is validated, then the document is committed, then the cleanup runs: the
\* metadata store is written only in the commit step, after an underlying close that
\* succeeded and checks that passed, the content store is changed only by the
\* cleanup, and no handle writes the metadata store a second time.
C29_CloseOrderAndSingleCommit ==
    [][\A p \in Procs :
          (InClose(p) /\ th'[p] # th[p]) =>
              /\ UnderlyingStep(p) =>
                    /\ db' = db
                    /\ th'[p].pc = "cl_defer" <=> th'[p].cerr = ErrClose
              /\ CommitStep(p) =>
                    /\ th[p].cerr = Nil
                    /\ fs' = fs
                    /\ db' # db => CloseCheck(p) = Nil /\ ~th[p].again
              /\ DeferStep(p) => db' = db]_vars

\* The step with which ModifyFileMetadata of thread p commits its document and
\* returns it.
PatchedReturn(p) == th[p].pc = "mf_commit" /\ th'[p].pc = "idle" /\ th'[p].ret = Nil

\* Field f of document new is what the patch pt asks for: the value of old when the
\* patch leaves the field unset, the value of the patch otherwise.
Patched(new, old, pt, f) ==
    IF pt[f] = {} THEN new[f] = old[f]
    ELSE new[f] = LET v == Deref(pt[f], old[f]) IN IF f = "tags" THEN uniqueTags(v) ELSE v

\* C30: ModifyFileMetadata changes only what the patch names. In the document a
\* successful call stores and returns, the name, the parent, the restore path, the
\* tags and the executable flag have the value of the old document where the patch
\* leaves them unset, and the size, the digest, the mime type, the class and the
\* references are those of the old document for every patch.
C30_PatchChangesOnlyNamedFields ==
    [][\A p \in Procs :
          PatchedReturn(p) =>
              LET new == db'[th[p].olddoc.id]
                  old == th[p].olddoc
              IN /\ th'[p].newdoc = new
                 /\ \A f \in {"name", "dirID", "restorePath", "exec", "tags"} :
                       Patched(new, old, th[p].patch, f)
                 /\ new.size = old.size
                 /\ new.md5 = old.md5
                 /\ new.mime = old.mime
                 /\ new.class = old.class
                 /\ new.referencedBy = old.referencedBy]_vars

\* The path lies under the trash directory: it is the directory or goes through it.
UnderTrash(path) == path = TrashDirName \/ HasPrefix(path, TrashDirName \o "/")

\* C31: TrashFile returns ErrFileInTrash only for a file that lies under the trash
\* directory: a file whose path is outside of it, also one whose path only begins
\* with the characters of the name of the trash directory, is not refused with that
\* error.
C31_InTrashOnlyUnderTrash ==
    [][\A p \in Procs :
          (TrashCallStep(p) /\ th'[p].ret = ErrFileInTrash) =>
              UnderTrash(FileDocPath(th'[p].olddoc))]_vars

\* Thread p is inside the loop of tryOrUseSuffix, and the step in which the loop
\* goes on with the next name.
InTry(p) == th[p].pc \in {"ts_stat", "ts_rename", "ts_commit"}
RetryStep(p) == InTry(p) /\ th'[p].nconflict = th[p].nconflict + 1

\* C32: the loop of tryOrUseSuffix under TrashFile and RestoreFile tries the next
\* name only after a collision of names and it ends. An error of ModifyFileMetadata
\* that is no collision, a missing source or a conflict of revisions, ends the loop
\* at once and is what the caller gets; the number of the tries stays under
\* MaxTries, and a collision at the last try ends the loop with os.ErrExist.
C32_NamerRetriesOnlyCollisions ==
    /\ [](\A p \in Procs : th[p].nconflict < MaxTries)
    /\ [][\A p \in Procs :
            /\ RetryStep(p) =>
                  /\ th[p].pc = "ts_stat" /\ FsExists(fs, th[p].newpath)
                  /\ th'[p].pc = "ts_stat" /\ th'[p].op = th[p].op
                  /\ fs' = fs /\ db' = db
            /\ (th[p].pc = "ts_rename" /\ th'[p] # th[p] /\ ~FsExists(fs, th[p].oldpath)) =>
                  th'[p].pc = "idle" /\ th'[p].ret = ErrNotExist
            /\ (th[p].pc = "ts_commit" /\ th'[p] # th[p] /\ ~UpdateOK(th[p].newdoc)) =>
                  th'[p].pc = "idle" /\ th'[p].ret = ErrCouchConflict
            /\ (th[p].pc = "ts_stat" /\ th'[p] # th[p] /\ FsExists(fs, th[p].newpath)
                   /\ th[p].nconflict = MaxTries - 1) =>
                  th'[p].pc = "idle" /\ th'[p].ret = ErrExist /\ fs' = fs /\ db' = db]_vars

\* TrashFile returned os.ErrExist after MaxTries collisions, and RestoreFile returned
\* the conflict of revisions it met after a collision, without a further try.
C32_Witness ==
    \E p, q \in Procs :
        /\ th[p].pc = "idle" /\ th[p].op = "TrashFile" /\ th[p].ret = ErrExist
        /\ th[p].nconflict = MaxTries - 1
        /\ th[q].pc = "idle" /\ th[q].op = "RestoreFile" /\ th[q].ret = ErrCouchConflict
        /\ th[q].nconflict = 1

\* The error with which getRestoreDir answers for document doc, Nil when it finds the
\* directory.
RestoreDirError(doc) == getRestoreDir(FileDocPath(doc), doc.restorePath).err

\* C33: when getRestoreDir fails in RestoreFile, RestoreFile returns that error and
\* no document at once: the file is moved nowhere, not to the root directory either,
\* and no content entry and no document changes.
C33_RestoreDirErrorIsReturned ==
    [][\A p \in Procs :
          (RestoreCallStep(p) /\ RestoreDirError(th'[p].olddoc) # Nil) =>
              /\ th'[p].pc = "idle"
              /\ th'[p].ret = RestoreDirError(th'[p].olddoc)
              /\ th'[p].newdoc = NoDoc
              /\ fs' = fs
              /\ db' = db]_vars

\* RestoreFile returned the error of the lookup of the restore directory for a file
\* that is in the trash, and the file is in the trash still.
C33_Witness ==
    \E p \in Procs :
        /\ th[p].pc = "idle" /\ th[p].op = "RestoreFile" /\ th[p].ret = ErrNotExist
        /\ th[p].newdoc = NoDoc
        /\ th[p].olddoc.dirID = TrashDirID /\ th[p].olddoc.restorePath # "/"
        /\ th[p].olddoc.id \in DOMAIN db /\ db[th[p].olddoc.id] = th[p].olddoc
        /\ FsExists(fs, FileDocPath(th[p].olddoc))

\* The id of the parent of the directory id in the store, "" when the store has no
\* such directory.
Up(id) == IF id \in DOMAIN db /\ db[id].type = DirType THEN db[id].dirID ELSE ""

\* The name of the directory id in the store.
DirName(id) == db[id].name

\* What Path has to return for a document of that name under the directory dirID in
\* a tree with at most two directories above a file: the names from the root down,
\* or the error of the lookup when a directory on the way up is not in the store
\* (with two directories and no cycle, a third directory on the way up is missing).
ExpectedPath(name, dirID) ==
    IF dirID = RootDirID THEN [err |-> Nil, path |-> "/" \o name]
    ELSE IF Up(dirID) = "" THEN [err |-> ErrNotExist, path |-> ""]
    ELSE IF Up(dirID) = RootDirID
    THEN [err |-> Nil, path |-> "/" \o DirName(dirID) \o "/" \o name]
    ELSE IF Up(Up(dirID)) # RootDirID THEN [err |-> ErrNotExist, path |-> ""]
    ELSE [err |-> Nil,
          path |-> "/" \o DirName(Up(dirID)) \o "/" \o DirName(dirID) \o "/" \o name]

\* The step in which thread p calls Path.
PathStep(p) == Free(p) /\ th'[p] # th[p] /\ th'[p].op = "Path" /\ nops' = nops + 1

\* C34: FileDoc.Path returns "/" joined with the name when the parent is the root,
\* and the path of the parent directory joined with the name otherwise; it returns
\* the error of the lookup when a directory on the way up to the root is not found;
\* on every tree without a cycle it returns, and on the tree of the root and the
\* trash directory the result is the path the file operations work with.
C34_PathResolves ==
    [][\A p \in Procs :
          PathStep(p) =>
              LET doc == th'[p].olddoc
              IN /\ th'[p].ret = ExpectedPath(doc.name, doc.dirID).err
                 /\ th'[p].newpath = ExpectedPath(doc.name, doc.dirID).path
                 /\ doc.dirID = RootDirID => th'[p].newpath = FileDocPath(doc)
                 /\ fs' = fs /\ db' = db]_vars

\* Path returned the path of a file two directories under the root, and the error of
\* the lookup for a file under a directory that is not in the store.
C34_Witness ==
    \E p, q \in Procs :
        /\ th[p].op = "Path" /\ th[p].ret = Nil /\ th[p].newpath = "/y/x/b"
        /\ th[q].op = "Path" /\ th[q].ret = ErrNotExist /\ th[q].olddoc.dirID = "d9"

\* The documents of files in the store.
FileIDs == {i \in DOMAIN db : db[i].type = FileType}

\* The documents of files in the store whose path is name.
FilesAt(name) ==
    {db[i] : i \in {j \in FileIDs :
                       ExpectedPath(db[j].name, db[j].dirID) = [err |-> Nil, path |-> name]}}

\* A step in which thread p makes the call op.
LookupStep(p, op) == Free(p) /\ th'[p] # th[p] /\ th'[p].op = op /\ nops' = nops + 1

\* C37: the lookup by path agrees with the path resolution: for every file document
\* of the store, GetFileDocFromPath of its path returns a file document with its name
\* and its parent id; the lookup fails with ErrNonAbsolutePath for a path that is not
\* absolute and with not-found when no file document has that parent and name;
\* GetFileDoc fails with not-found for the id of a document that is not a file.
C37_LookupAgreesWithPath ==
    [][\A p \in Procs :
          /\ LookupStep(p, "GetFileDocFromPath") =>
                LET name == th'[p].arg
                IN /\ ~PathIsAbs(name) => th'[p].ret = ErrNonAbsolutePath
                   /\ \A d \in FilesAt(name) :
                         /\ th'[p].ret = Nil
                         /\ th'[p].newdoc.type = FileType
                         /\ th'[p].newdoc.name = d.name
                         /\ th'[p].newdoc.dirID = d.dirID
                   /\ PathIsAbs(name) /\ FilesAt(name) = {} => th'[p].ret = ErrNotExist
                   /\ th'[p].ret # Nil => th'[p].newdoc = NoDoc
          /\ LookupStep(p, "GetFileDoc") =>
                LET fileID == th'[p].arg
                IN IF fileID \in FileIDs
                   THEN th'[p].ret = Nil /\ th'[p].newdoc = db[fileID]
                   ELSE th'[p].ret = ErrNotExist /\ th'[p].newdoc = NoDoc]_vars

\* The lookup of the path of a file two directories under the root returned its
\* document, and GetFileDoc was refused the document of a directory.
C37_Witness ==
    \E p, q \in Procs :
        /\ th[p].op = "GetFileDocFromPath" /\ th[p].arg = "/y/x/b" /\ th[p].ret = Nil
        /\ th[p].newdoc.id = "f2"
        /\ th[q].op = "GetFileDoc" /\ th[q].arg = "d1" /\ th[q].ret = ErrNotExist
        /\ db["d1"].type = DirType

\* The step in which thread p calls ModifyFileMetadata in the tree of directories.
ModifyTreeStep(p) ==
    /\ Free(p) /\ th'[p] # th[p] /\ nops' = nops + 1
    /\ th'[p].op = "ModifyFileMetadata" /\ th'[p].olddoc # NoDoc

\* The parent id the patch of that call asks for is not the one of olddoc.
ParentChanged(t) == Deref(t.patch.dirID, t.olddoc.dirID) # t.olddoc.dirID

\* A document a call produced has a cached parent that is not its parent.
StaleParent(t) ==
    /\ t.op \in {"ModifyFileMetadata", "GetFileDocFromPath"}
    /\ t.newdoc # NoDoc
    /\ t.parent # NoDir
    /\ t.parent.id # t.newdoc.dirID

\* C35, as the claim states it: no produced document has a stale cached parent, and
\* ModifyFileMetadata reads the parent from the store exactly when the patch changes
\* the parent id.
C35_ParentReadOnlyOnChange ==
    /\ [](\A p \in Procs : ~StaleParent(th[p]))
    /\ [][\A p \in Procs :
             ModifyTreeStep(p) => (th'[p].nlookup > 0 <=> ParentChanged(th'[p]))]_vars

\* C35: in every document produced by ModifyFileMetadata or GetFileDocFromPath, a
\* cached parent that is not empty has the id the document has as its parent id.
\* ModifyFileMetadata takes the parent of newdoc from the store when the patch changes
\* the parent id and from the cache of olddoc when it does not; the store is read
\* without a change of the parent id only when olddoc carries no cached parent and is
\* not under the root, by the path resolution of olddoc and of newdoc.
C35_CachedParentNeverStale ==
    /\ [](\A p \in Procs : ~StaleParent(th[p]))
    /\ [][\A p \in Procs :
             ModifyTreeStep(p) =>
                 LET t == th'[p]
                     emptyCache == t.oldparent = NoDir /\ t.olddoc.dirID # RootDirID
                 IN /\ t.nlookup > 0 <=> (ParentChanged(t) \/ emptyCache)
                    /\ ParentChanged(t) => t.nlookup = 1
                    /\ ParentChanged(t) /\ t.newdoc # NoDoc =>
                          t.parent = GetDirDoc(db, t.newdoc.dirID).dir
                    /\ ~ParentChanged(t) /\ t.oldparent # NoDir /\ t.newdoc # NoDoc =>
                          t.parent = t.oldparent
                    /\ ~ParentChanged(t) /\ t.olddoc.dirID = RootDirID /\ t.newdoc # NoDoc =>
                          t.parent = t.oldparent]_vars

\* ModifyFileMetadata moves a file that GetFileDocFromPath returned with its parent
\* d1 to the directory d2: it read d2 from the store once and cached it in newdoc.
C35_Witness ==
    \E p \in Procs :
        /\ th[p].op = "ModifyFileMetadata" /\ th[p].pc = "mf_commit"
        /\ th[p].oldparent.id = "d1" /\ th[p].olddoc.dirID = "d1"
        /\ th[p].newdoc.dirID = "d2" /\ th[p].parent.id = "d2"
        /\ th[p].nlookup = 1

\* The step in which a call of thread p that commits a document returns without an
\* error: ModifyFileMetadata after UpdateDoc, Close after its deferred function.
SuccessfulReturn(p) ==
    \/ th[p].pc = "mf_commit" /\ th'[p].pc = "idle" /\ th'[p].ret = Nil
    \/ th[p].pc = "cl_defer" /\ th'[p].pc = "closed" /\ th'[p].ret = Nil
                             /\ th'[p].err = Nil

\* The mode of the content entry at path is the one of the executable flag of the
\* stored document id.
ModeAgrees(f, d, path, id) ==
    path \in DOMAIN f /\ id \in DOMAIN d => f[path].mode = getFileMode(d[id].exec)

\* C36: after every successful operation on a file, the mode of its content entry is
\* the executable mode exactly when the stored document's executable flag is true.
C36_ModeFollowsExecutableFlag ==
    [][\A p \in Procs :
          SuccessfulReturn(p) =>
              ModeAgrees(fs', db', th[p].newpath, th[p].newdoc.id)]_vars

\* The step in which thread p serves a request of the route op.
Served(p, op) ==
    Free(p) /\ th'[p] # th[p] /\ th'[p].op = op /\ nops' = nops + 1

\* The i-th call of a handler is the call fn with the argument arg.
IsCall(calls, i, fn, arg) == Len(calls) >= i /\ calls[i].fn = fn /\ calls[i].arg = arg

\* C38: deleteDoc deletes only with an explicit revision. With neither an If-Match
\* header nor a rev query parameter, or with both and different, it answers with a
\* bad-request error and calls neither the permission check nor the store; otherwise
\* it checks the write permission, and only when the check passed does it call
\* couchdb.Delete, once and with the single revision given.
C38_DeleteNeedsOneRevision ==
    [][\A p \in Procs :
          Served(p, "deleteDoc") =>
              LET r == th'[p].req
                  calls == th'[p].calls
                  rev == IF r.revHeader # "" THEN r.revHeader ELSE r.revQuery
              IN IF \/ r.revHeader = "" /\ r.revQuery = ""
                    \/ r.revHeader # "" /\ r.revQuery # "" /\ r.revHeader # r.revQuery
                 THEN th'[p].ret = ErrBadRequest /\ calls = <<>> /\ db' = db
                 ELSE /\ IsCall(calls, 1, "CheckWritable", r.doctype)
                      /\ IF calls[1].err # Nil
                         THEN Len(calls) = 1 /\ th'[p].ret = calls[1].err /\ db' = db
                         ELSE /\ Len(calls) = 2
                              /\ IsCall(calls, 2, "couchdb.Delete", rev)
                              /\ th'[p].ret = calls[2].err
                              /\ IF HasDoc(db, r.doctype, r.docid) /\ db[r.docid].rev = rev
                                 THEN th'[p].ret = Nil /\ r.docid \notin DOMAIN db'
                                 ELSE th'[p].ret # Nil /\ db' = db]_vars

\* One request with the same revision in the header and in the query deleted its
\* document, and one with two revisions that differ was refused.
C38_Witness ==
    \E p, q \in Procs :
        /\ th[p].op = "deleteDoc" /\ th[p].ret = Nil
        /\ th[p].req.revHeader = "1" /\ th[p].req.revQuery = "1"
        /\ th[p].req.docid \notin DOMAIN db
        /\ th[q].op = "deleteDoc" /\ th[q].ret = ErrBadRequest
        /\ th[q].req.revHeader = "1" /\ th[q].req.revQuery = "2"

\* The store calls among the calls of a handler.
StoreCalls(calls) ==
    {i \in 1..Len(calls) : calls[i].fn \notin {"CheckReadable", "CheckWritable"}}

\* The body of an updateDoc request has exactly one of _id and _rev, or an _id that is
\* not the id of the URL.
BadBody(r) == (r.id = "") # (r.rev = "") \/ (r.id # "" /\ r.id # r.docid)

\* What updateDoc does with a body it could read, whatever the permissions are.
UpdateClassified(t) ==
    LET r == t.req
    IN IF BadBody(r) THEN t.ret = ErrBadRequest /\ StoreCalls(t.calls) = {}
       ELSE IF r.id = ""
       THEN IsCall(t.calls, Len(t.calls), "couchdb.CreateNamedDoc", r.docid)
       ELSE IsCall(t.calls, Len(t.calls), "couchdb.UpdateDoc", r.id)

\* C39, as the claim states it: every body with both _id and _rev is an update, every
\* body with neither is a create under the id of the URL, and every other body, or one
\* whose _id is not the id of the URL, is refused with a bad-request error and no
\* call of the store.
C39_BodyAloneDecides ==
    [][\A p \in Procs :
          Served(p, "updateDoc") /\ th'[p].req.bind => UpdateClassified(th'[p])]_vars

\* C39: updateDoc checks the write permission on the doctype before it looks at the
\* body. When the check fails it returns the error of the check and does not call the
\* store. When it passes, a body with both _id and _rev is an update, a body with
\* neither is a create under the id of the URL, and a body with exactly one of the
\* two, or with an _id that is not the id of the URL, is refused with a bad-request
\* error and no call of the store; the answer of the store is the answer of the
\* handler.
C39_UpdateOrCreateByBody ==
    [][\A p \in Procs :
          Served(p, "updateDoc") /\ th'[p].req.bind =>
              LET t == th'[p]
                  r == t.req
              IN /\ IsCall(t.calls, 1, "CheckWritable", r.doctype)
                 /\ IF CheckWritable(r.doctype) # Nil
                    THEN /\ t.ret = ErrForbidden /\ Len(t.calls) = 1 /\ db' = db
                    ELSE /\ UpdateClassified(t)
                         /\ Len(t.calls) = IF BadBody(r) THEN 1 ELSE 2
                         /\ BadBody(r) => db' = db
                         /\ ~BadBody(r) =>
                               /\ t.ret = t.calls[2].err
                               /\ t.ret # Nil => db' = db
                               /\ t.ret = Nil /\ r.id = "" =>
                                     r.docid \notin DOMAIN db /\ db'[r.docid].rev = "1"
                               /\ t.ret = Nil /\ r.id # "" =>
                                     db[r.id].rev = r.rev /\ db'[r.id].rev # r.rev]_vars

\* One request updated the document e1 with its revision, one created the document e2
\* with a body that has neither _id nor _rev.
C39_Witness ==
    \E p, q \in Procs :
        /\ th[p].op = "updateDoc" /\ th[p].ret = Nil
        /\ th[p].req.id = "e1" /\ th[p].req.rev = "1" /\ db["e1"].rev = "2"
        /\ th[q].op = "updateDoc" /\ th[q].ret = Nil
        /\ th[q].req.id = "" /\ th[q].req.docid = "e2" /\ "e2" \in DOMAIN db

\* The calls of the store that read documents of a doctype, and those that write.
ReadFns ==
    {"couchdb.GetDoc", "couchdb.GetChanges", "couchdb.FindDocsRaw", "couchdb.DBStatus",
     "couchdb.Proxy GET", "couchdb.Proxy POST", "couchdb.DefineIndexRaw"}
WriteFns ==
    {"couchdb.CreateDoc", "couchdb.CreateNamedDoc", "couchdb.UpdateDoc", "couchdb.Delete",
     "couchdb.Proxy PUT", "couchdb.CreateDB"}

\* Before its i-th call the handler made the permission check fn on the doctype of
\* the request, and the check passed.
CheckedBefore(t, i, fn) ==
    \E j \in 1..(i - 1) :
        t.calls[j].fn = fn /\ t.calls[j].arg = t.req.doctype /\ t.calls[j].err = Nil

\* C40: every route of the data API that reads documents of a doctype from the store
\* checks the read permission on that doctype before it reaches the store, and every
\* route that writes to the store checks the write permission before it does; a check
\* that fails ends the request with no access to the store.
C40_PermissionBeforeStore ==
    \A p \in Procs :
        LET t == th[p]
        IN \A i \in 1..Len(t.calls) :
              /\ t.calls[i].fn \in ReadFns => CheckedBefore(t, i, "CheckReadable")
              /\ t.calls[i].fn \in WriteFns => CheckedBefore(t, i, "CheckWritable")
              /\ t.calls[i].fn \in {"CheckReadable", "CheckWritable"}
                 /\ t.calls[i].err # Nil => i = Len(t.calls) /\ t.ret = t.calls[i].err

====
